---------------------------- MODULE Spec2Model ----------------------------
(***************************************************************************)
(* A model of the Gmail -> Sheets pipeline: the body normalizer            *)
(* (safe_b64_decode, strip_html, extract_text_body), the field extractor   *)
(* (extract_key_value, extract_regex_pattern), parse_email and the         *)
(* pipeline driver run_pipeline with its Sheets / Gmail collaborators.     *)
(*                                                                         *)
(* Conventions.                                                            *)
(*  - A Python str is a sequence of characters; a character is a TLA+      *)
(*    string of length one ("a", "\n"), or "U+<n>" for a code point that   *)
(*    has no printable ASCII form.                                         *)
(*  - A Python value is a tagged record: None, Str(s), Name(s), PyInt(n),    *)
(*    List(seq), Dict(f) with f a function from key names to Python        *)
(*    values; a key that is absent from a dict is absent from DOMAIN f.    *)
(*  - A raised exception is the value Exc(name); every operator that       *)
(*    models a function propagates it the way the Python code would.       *)
(***************************************************************************)
EXTENDS Integers, Sequences, FiniteSets, TLC

VARIABLES
    payload,        \* extract_text_body: the payload tree handed in
    body_out,       \* extract_text_body: the returned value
    message,        \* parse_email: the full_message handed in
    PARSING_MAP,    \* config.PARSING_MAP, the ordered rule list
    HIGH_PRIORITY_KEYWORDS, \* config.HIGH_PRIORITY_KEYWORDS
    parse_out,      \* parse_email: the returned mapping (or the exception)
    pc,             \* run_pipeline: position in the function
    sheet_header,   \* the sheet's first row as the Sheets API holds it
    sheet_rows,     \* the data rows appended to the sheet so far
    messages,       \* run_pipeline: the fetched full messages
    rows,           \* run_pipeline: the rows built so far
    processed_ids,  \* run_pipeline: the ids collected for mark_as_read
    cursor,         \* run_pipeline: index of the loop in progress
    attempt,        \* retry counter of the API call in progress
    header_status,  \* outcome of ensure_header_row in this run
    append_status,  \* outcome of append_rows in this run
    marked,         \* sequence of ids mark_as_read was invoked with
    unread,         \* ids that still carry the UNREAD label in Gmail
    called,         \* a function called on its own: its name
    args,           \* a function called on its own: its arguments
    ret,            \* a function called on its own: what it returned
    inbox,          \* invocations of parse_email: the message objects handed in
    calls,          \* invocations of parse_email: position, argument, result
    frames,         \* invocations of parse_email: the local variables
    log,            \* the module's logger: the records written so far
    requests,       \* the API requests executed so far, in order
    slept,          \* the delays handed to time.sleep so far, in order
    all_ids,        \* fetch_unread_full_emails: the entries listed so far
    page_token,     \* fetch_unread_full_emails: the token of the next page
    unique_ids      \* fetch_unread_full_emails: the deduplicated entries

vars == << payload, body_out, message, PARSING_MAP,
           HIGH_PRIORITY_KEYWORDS, parse_out, pc, sheet_header, sheet_rows,
           messages, rows, processed_ids, cursor, attempt, header_status,
           append_status, marked, unread, called, args, ret, inbox, calls,
           frames, log, requests, slept, all_ids, page_token, unique_ids >>

----------------------------------------------------------------------------
(* Python values *)

None == [t |-> "none"]
Str(s) == [t |-> "str", v |-> s]
PyInt(n) == [t |-> "int", v |-> n]
List(q) == [t |-> "list", v |-> q]
Dict(f) == [t |-> "dict", v |-> f]
Exc(name) == [t |-> "exc", v |-> name]
\* A str that the code only compares with literals or uses as a dict key
\* (a rule's method and output_field, a message id) is kept whole.
Name(s) == [t |-> "name", v |-> s]
EmptyStr == Str(<< >>)
EmptyDict == Dict([k \in {} |-> None])
EmptyList == List(<< >>)

IsExc(x) == x.t = "exc"
IsStr(x) == x.t = "str"

\* Python truthiness (bool(x)).
Truthy(x) ==
    CASE x.t = "none" -> FALSE
      [] x.t = "str"  -> Len(x.v) > 0
      [] x.t = "list" -> Len(x.v) > 0
      [] x.t = "dict" -> DOMAIN x.v # {}
      [] x.t = "int"  -> x.v # 0
      [] x.t = "name" -> x.v # ""
      [] OTHER        -> TRUE

\* a == b on Python values.
PyEq(a, b) == a.t = b.t /\ a.v = b.v

\* d.get(k, default): only a dict has .get.
DictGet(d, k, default) ==
    IF d.t = "exc" THEN d
    ELSE IF d.t # "dict" THEN Exc("AttributeError")
    ELSE IF k \in DOMAIN d.v THEN d.v[k]
    ELSE default

\* The elements a for-loop over x visits, or the exception iter(x) raises.
\* Iterating a str yields its one-character strs, a dict its keys.
IterItems(x) ==
    CASE x.t = "list" -> x
      [] x.t = "str"  -> List([i \in 1..Len(x.v) |-> Str(<< x.v[i] >>)])
      [] x.t = "dict" -> IF DOMAIN x.v = {} THEN EmptyList
                         ELSE List(<< Str(<< "k" >>) >>)
      [] x.t = "exc"  -> x
      [] OTHER        -> Exc("TypeError")

----------------------------------------------------------------------------
(* Characters *)

AsciiChars ==
  << "U+0", "U+1", "U+2", "U+3", "U+4", "U+5", "U+6", "U+7",
     "U+8", "\t", "\n", "U+11", "\f", "\r", "U+14", "U+15",
     "U+16", "U+17", "U+18", "U+19", "U+20", "U+21", "U+22", "U+23",
     "U+24", "U+25", "U+26", "U+27", "U+28", "U+29", "U+30", "U+31",
     " ", "!", "\"", "#", "$", "%", "&", "'",
     "(", ")", "*", "+", ",", "-", ".", "/",
     "0", "1", "2", "3", "4", "5", "6", "7",
     "8", "9", ":", ";", "<", "=", ">", "?",
     "@", "A", "B", "C", "D", "E", "F", "G",
     "H", "I", "J", "K", "L", "M", "N", "O",
     "P", "Q", "R", "S", "T", "U", "V", "W",
     "X", "Y", "Z", "[", "\\", "]", "^", "_",
     "U+96", "a", "b", "c", "d", "e", "f", "g",
     "h", "i", "j", "k", "l", "m", "n", "o",
     "p", "q", "r", "s", "t", "u", "v", "w",
     "x", "y", "z", "{", "|", "}", "~", "U+127" >>

AsciiSet == { AsciiChars[i] : i \in 1..Len(AsciiChars) }
IsAscii(c) == c \in AsciiSet

\* chr(n) for a code point n.
Chr(n) == IF n < Len(AsciiChars) THEN AsciiChars[n + 1] ELSE "U+" \o ToString(n)

UpperSet == { AsciiChars[i] : i \in 66..91 }
LowerSet == { AsciiChars[i] : i \in 98..123 }
DigitSet == { AsciiChars[i] : i \in 49..58 }

\* str.lower() on one character (ASCII letters; others are unchanged).
LowerChar(c) ==
    IF c \in UpperSet
    THEN AsciiChars[(CHOOSE i \in 66..91 : AsciiChars[i] = c) + 32]
    ELSE c

Lower(s) == [i \in 1..Len(s) |-> LowerChar(s[i])]

\* What \s matches in a str pattern, and what str.strip() removes.
SpaceSet == { " ", "\t", "\n", "\r", "\f", "U+11", "U+28", "U+29", "U+30",
              "U+31", "U+133", "U+160" }
IsSpace(c) == c \in SpaceSet

\* What \w matches: letters, digits and the underscore.
IsWordChar(c) == c \in UpperSet \cup LowerSet \cup DigitSet \cup { "_" }

SubStr(s, i, j) == IF j < i THEN << >> ELSE SubSeq(s, i, j)

\* s[i:] starts with lit, compared with re.IGNORECASE.
StartsWithAtCI(s, i, lit) ==
    /\ i + Len(lit) - 1 <= Len(s)
    /\ \A k \in 1..Len(lit) : LowerChar(s[i + k - 1]) = LowerChar(lit[k])

\* s[i:] starts with lit, compared exactly.
StartsWithAt(s, i, lit) ==
    /\ i + Len(lit) - 1 <= Len(s)
    /\ \A k \in 1..Len(lit) : s[i + k - 1] = lit[k]

\* str.strip()
RECURSIVE LStrip(_)
LStrip(s) == IF s # << >> /\ IsSpace(Head(s)) THEN LStrip(Tail(s)) ELSE s
RECURSIVE RStrip(_)
RStrip(s) ==
    IF s # << >> /\ IsSpace(s[Len(s)]) THEN RStrip(SubStr(s, 1, Len(s) - 1))
    ELSE s
Strip(s) == RStrip(LStrip(s))

----------------------------------------------------------------------------
(* safe_b64_decode: URL-safe base64, then UTF-8 with errors="replace" *)

B64Alphabet ==
  << "A", "B", "C", "D", "E", "F", "G", "H", "I", "J", "K", "L", "M", "N", "O", "P",
     "Q", "R", "S", "T", "U", "V", "W", "X", "Y", "Z", "a", "b", "c", "d", "e", "f",
     "g", "h", "i", "j", "k", "l", "m", "n", "o", "p", "q", "r", "s", "t", "u", "v",
     "w", "x", "y", "z", "0", "1", "2", "3", "4", "5", "6", "7", "8", "9", "+", "/" >>

IsB64Char(c) == \E i \in 1..Len(B64Alphabet) : B64Alphabet[i] = c
B64Value(c) == (CHOOSE i \in 1..Len(B64Alphabet) : B64Alphabet[i] = c) - 1

\* bytes.translate of urlsafe_b64decode: '-' -> '+', '_' -> '/'.
UrlSafeTranslate(s) ==
    [i \in 1..Len(s) |-> IF s[i] = "-" THEN "+" ELSE IF s[i] = "_" THEN "/" ELSE s[i]]

\* binascii.a2b_base64 in its non-strict mode: characters outside the
\* alphabet are skipped, a completed pad sequence ends the input, and an
\* unfinished quad at the end of the input is an error.
RECURSIVE a2b_base64(_, _, _, _, _, _)
a2b_base64(s, i, quad_pos, leftchar, pads, out) ==
    IF i > Len(s)
    THEN IF quad_pos # 0 THEN [ok |-> FALSE, bytes |-> << >>]
         ELSE [ok |-> TRUE, bytes |-> out]
    ELSE LET c == s[i] IN
      IF c = "="
      THEN IF quad_pos >= 2 /\ quad_pos + pads + 1 >= 4
           THEN [ok |-> TRUE, bytes |-> out]
           ELSE a2b_base64(s, i + 1, quad_pos, leftchar,
                           IF quad_pos >= 2 THEN pads + 1 ELSE pads, out)
      ELSE IF ~IsB64Char(c)
      THEN a2b_base64(s, i + 1, quad_pos, leftchar, pads, out)
      ELSE LET v == B64Value(c) IN
        CASE quad_pos = 0 -> a2b_base64(s, i + 1, 1, v, 0, out)
          [] quad_pos = 1 ->
               a2b_base64(s, i + 1, 2, v % 16, 0,
                          Append(out, leftchar * 4 + (v \div 16)))
          [] quad_pos = 2 ->
               a2b_base64(s, i + 1, 3, v % 4, 0,
                          Append(out, leftchar * 16 + (v \div 4)))
          [] OTHER ->
               a2b_base64(s, i + 1, 0, 0, 0, Append(out, leftchar * 64 + v))

\* U+FFFD, the character errors="replace" substitutes.
ReplacementChar == Chr(65533)

\* bytes.decode("utf-8", errors="replace"): every maximal ill-formed
\* subsequence becomes one replacement character.
RECURSIVE Utf8Decode(_, _)
Utf8Decode(b, i) ==
    IF i > Len(b) THEN << >>
    ELSE LET b0 == b[i]
             In(k, lo, hi) == i + k <= Len(b) /\ b[i + k] \in lo..hi
             Cont(k) == In(k, 128, 191)
             Bad(n) == << ReplacementChar >> \o Utf8Decode(b, i + n)
      IN
      IF b0 < 128 THEN << Chr(b0) >> \o Utf8Decode(b, i + 1)
      ELSE IF b0 \in 194..223 THEN
          IF ~Cont(1) THEN Bad(1)
          ELSE << Chr((b0 - 192) * 64 + (b[i + 1] - 128)) >>
               \o Utf8Decode(b, i + 2)
      ELSE IF b0 \in 224..239 THEN
          IF ~In(1, IF b0 = 224 THEN 160 ELSE 128, IF b0 = 237 THEN 159 ELSE 191)
          THEN Bad(1)
          ELSE IF ~Cont(2) THEN Bad(2)
          ELSE << Chr(((b0 - 224) * 64 + (b[i + 1] - 128)) * 64
                      + (b[i + 2] - 128)) >>
               \o Utf8Decode(b, i + 3)
      ELSE IF b0 \in 240..244 THEN
          IF ~In(1, IF b0 = 240 THEN 144 ELSE 128, IF b0 = 244 THEN 143 ELSE 191)
          THEN Bad(1)
          ELSE IF ~Cont(2) THEN Bad(2)
          ELSE IF ~Cont(3) THEN Bad(3)
          ELSE << Chr((((b0 - 240) * 64 + (b[i + 1] - 128)) * 64
                       + (b[i + 2] - 128)) * 64 + (b[i + 3] - 128)) >>
               \o Utf8Decode(b, i + 4)
      ELSE Bad(1)

\* "=" * n
RECURSIVE Pad(_)
Pad(n) == IF n <= 0 THEN << >> ELSE << "=" >> \o Pad(n - 1)

\* safe_b64_decode without lines 26-28: the data is decoded as it comes.
DecodeUnpadded(data) ==
    IF IsExc(data) THEN data
    ELSE IF ~Truthy(data) THEN EmptyStr
    ELSE IF ~IsStr(data) THEN EmptyStr
    ELSE IF \E i \in 1..Len(data.v) : ~IsAscii(data.v[i]) THEN EmptyStr
    ELSE LET r == a2b_base64(UrlSafeTranslate(data.v), 1, 0, 0, 0, << >>)
         IN IF ~r.ok THEN EmptyStr ELSE Str(Utf8Decode(r.bytes, 1))

\* Every exception raised inside the try block (a non-str argument, a
\* non-ASCII character, binascii.Error) is caught and turned into ''.
safe_b64_decode(data) ==
    IF IsExc(data) THEN data
    ELSE IF ~Truthy(data) THEN EmptyStr
    ELSE IF ~IsStr(data) THEN EmptyStr
    ELSE LET padding == Len(data.v) % 4
             padded == IF padding # 0 THEN data.v \o Pad(4 - padding) ELSE data.v
         IN IF \E i \in 1..Len(padded) : ~IsAscii(padded[i]) THEN EmptyStr
            ELSE LET r == a2b_base64(UrlSafeTranslate(padded), 1, 0, 0, 0, << >>)
                 IN IF ~r.ok THEN EmptyStr ELSE Str(Utf8Decode(r.bytes, 1))

----------------------------------------------------------------------------
(* strip_html *)

\* The least j >= from with s[j] = c, or 0.
IndexOfChar(s, c, from) ==
    IF \E j \in from..Len(s) : s[j] = c
    THEN CHOOSE j \in from..Len(s) : s[j] = c /\ \A k \in from..(j - 1) : s[k] # c
    ELSE 0

\* The least j >= from where lit occurs in s ignoring case, or 0.
FindCI(s, lit, from) ==
    IF \E j \in from..Len(s) : StartsWithAtCI(s, j, lit)
    THEN CHOOSE j \in from..Len(s) :
            /\ StartsWithAtCI(s, j, lit)
            /\ \A k \in from..(j - 1) : ~StartsWithAtCI(s, k, lit)
    ELSE 0

\* (?is)<(script|style).*?>.*?(</\1>) tried at position i: the index just
\* past the match, or 0.  The first lazy run stops at the first '>' after
\* the tag name, the second at the first closing tag of the same name.
ScriptStyleMatchEnd(s, i) ==
    IF s[i] # "<" THEN 0
    ELSE LET name == IF StartsWithAtCI(s, i + 1, << "s", "c", "r", "i", "p", "t" >>)
                     THEN << "s", "c", "r", "i", "p", "t" >>
                     ELSE IF StartsWithAtCI(s, i + 1, << "s", "t", "y", "l", "e" >>)
                     THEN << "s", "t", "y", "l", "e" >>
                     ELSE << >>
         IN IF name = << >> THEN 0
            ELSE LET gt == IndexOfChar(s, ">", i + 1 + Len(name))
                 IN IF gt = 0 THEN 0
                    ELSE LET close == FindCI(s, << "<", "/" >> \o name \o << ">" >>,
                                             gt + 1)
                         IN IF close = 0 THEN 0 ELSE close + Len(name) + 3

\* Step 1: re.sub(r"(?is)<(script|style).*?>.*?(</\1>)", "", html)
RECURSIVE SubScriptStyle(_, _)
SubScriptStyle(s, i) ==
    IF i > Len(s) THEN << >>
    ELSE LET e == ScriptStyleMatchEnd(s, i)
         IN IF e # 0 THEN SubScriptStyle(s, e)
            ELSE << s[i] >> \o SubScriptStyle(s, i + 1)

RECURSIVE SkipSpaces(_, _)
SkipSpaces(s, i) ==
    IF i <= Len(s) /\ IsSpace(s[i]) THEN SkipSpaces(s, i + 1) ELSE i

\* (?i)<br\s*/?> tried at position i: the index just past the match, or 0.
BrMatchEnd(s, i) ==
    IF ~StartsWithAtCI(s, i, << "<", "b", "r" >>) THEN 0
    ELSE LET j == SkipSpaces(s, i + 3)
             k == IF j <= Len(s) /\ s[j] = "/" THEN j + 1 ELSE j
         IN IF k <= Len(s) /\ s[k] = ">" THEN k + 1 ELSE 0

\* Step 2a: re.sub(r"(?i)<br\s*/?>", "\n", html)
RECURSIVE SubBr(_, _)
SubBr(s, i) ==
    IF i > Len(s) THEN << >>
    ELSE LET e == BrMatchEnd(s, i)
         IN IF e # 0 THEN << "\n" >> \o SubBr(s, e)
            ELSE << s[i] >> \o SubBr(s, i + 1)

\* Step 2b: re.sub(r"(?i)</p>", "\n", html)
RECURSIVE SubCloseP(_, _)
SubCloseP(s, i) ==
    IF i > Len(s) THEN << >>
    ELSE IF StartsWithAtCI(s, i, << "<", "/", "p", ">" >>)
         THEN << "\n" >> \o SubCloseP(s, i + 4)
         ELSE << s[i] >> \o SubCloseP(s, i + 1)

\* <[^>]+> tried at position i: the index just past the match, or 0.
TagMatchEnd(s, i) ==
    IF s[i] # "<" THEN 0
    ELSE LET gt == IndexOfChar(s, ">", i + 1)
         IN IF gt > i + 1 THEN gt + 1 ELSE 0

\* Step 3: re.sub(r"<[^>]+>", "", html)
RECURSIVE SubTags(_, _)
SubTags(s, i) ==
    IF i > Len(s) THEN << >>
    ELSE LET e == TagMatchEnd(s, i)
         IN IF e # 0 THEN SubTags(s, e)
            ELSE << s[i] >> \o SubTags(s, i + 1)

\* The text as it is, every run of whitespace kept.
KeepSpaces(s, i) == SubStr(s, i, Len(s))

\* re.sub(r"\s+", " ", text)
RECURSIVE CollapseSpaces(_, _)
CollapseSpaces(s, i) ==
    IF i > Len(s) THEN << >>
    ELSE IF IsSpace(s[i]) THEN << " " >> \o CollapseSpaces(s, SkipSpaces(s, i))
         ELSE << s[i] >> \o CollapseSpaces(s, i + 1)

strip_html(html) ==
    IF IsExc(html) THEN html
    ELSE IF ~Truthy(html) THEN EmptyStr
    ELSE IF ~IsStr(html) THEN Exc("TypeError")
    ELSE LET s1 == SubScriptStyle(html.v, 1)
             s2 == SubBr(s1, 1)
             s3 == SubCloseP(s2, 1)
             s4 == SubTags(s3, 1)
         IN Str(Strip(CollapseSpaces(s4, 1)))

----------------------------------------------------------------------------
(* extract_text_body *)

TextPlain == << "t", "e", "x", "t", "/", "p", "l", "a", "i", "n" >>
TextHtml == << "t", "e", "x", "t", "/", "h", "t", "m", "l" >>

\* The loop over parts ran to its end without returning.
NoReturn == [t |-> "noreturn"]

\* node.get("body", {}).get("data", "")
BodyData(node) == DictGet(DictGet(node, "body", EmptyDict), "data", EmptyStr)

RECURSIVE extract_text_body(_)
RECURSIVE PartStep(_)
RECURSIVE ScanParts(_, _)

\* One iteration of "for part in parts": the value returned from inside
\* the loop body, the exception raised there, or NoReturn.
PartStep(part) ==
    LET p_mime == DictGet(part, "mimeType", EmptyStr)
        data == BodyData(part)
        plain == IF ~PyEq(p_mime, Str(TextPlain)) THEN NoReturn
                 ELSE IF IsExc(data) THEN data
                 ELSE IF Truthy(data) THEN safe_b64_decode(data)
                 ELSE NoReturn
        html == IF ~PyEq(p_mime, Str(TextHtml)) THEN NoReturn
                ELSE IF IsExc(data) THEN data
                ELSE IF Truthy(data) THEN strip_html(safe_b64_decode(data))
                ELSE NoReturn
        nested == IF ~Truthy(DictGet(part, "parts", None)) THEN NoReturn
                  ELSE LET r == extract_text_body(part)
                       IN IF IsExc(r) \/ Truthy(r) THEN r ELSE NoReturn
    IN IF IsExc(p_mime) THEN p_mime
       ELSE IF plain # NoReturn THEN plain
       ELSE IF html # NoReturn THEN html
       ELSE nested

\* "for part in parts" from the i-th element on.
ScanParts(items, i) ==
    IF i > Len(items) THEN NoReturn
    ELSE LET r == PartStep(items[i])
         IN IF r # NoReturn THEN r ELSE ScanParts(items, i + 1)

\* extract_text_body without lines 84-87: a payload that is itself
\* text/plain is searched like any other.
BodyIgnoringOwnMime(pl) ==
    IF IsExc(pl) THEN pl
    ELSE IF ~Truthy(pl) THEN EmptyStr
    ELSE LET own == BodyData(pl)
             parts == IterItems(DictGet(pl, "parts", EmptyList))
             inloop == IF IsExc(parts) THEN parts ELSE ScanParts(parts.v, 1)
         IN IF inloop # NoReturn THEN inloop
            ELSE IF IsExc(own) THEN own
            ELSE IF Truthy(own) THEN safe_b64_decode(own)
            ELSE EmptyStr

extract_text_body(pl) ==
    IF IsExc(pl) THEN pl
    ELSE IF ~Truthy(pl) THEN EmptyStr
    ELSE LET mime == DictGet(pl, "mimeType", EmptyStr)
             own == BodyData(pl)
         IN IF IsExc(mime) THEN mime
            ELSE IF PyEq(mime, Str(TextPlain)) THEN safe_b64_decode(own)
            ELSE LET parts == IterItems(DictGet(pl, "parts", EmptyList))
                     inloop == IF IsExc(parts) THEN parts
                               ELSE ScanParts(parts.v, 1)
                 IN IF inloop # NoReturn THEN inloop
                    ELSE IF IsExc(own) THEN own
                    ELSE IF Truthy(own) THEN safe_b64_decode(own)
                    ELSE EmptyStr

----------------------------------------------------------------------------
(* Regular expressions: the subset of Python's re that the rules use *)

ReError == [err |-> "error"]
ReUnsupported == [err |-> "unsupported"]
ReOk(node, pos, ng) == [err |-> "", node |-> node, pos |-> pos, ng |-> ng]

\* ord(c) for an ASCII character.
Ord(c) == (CHOOSE i \in 1..Len(AsciiChars) : AsciiChars[i] = c) - 1

RECURSIVE DigitsEnd(_, _)
\* The index of the first non-digit at or after i.
DigitsEnd(p, i) ==
    IF i <= Len(p) /\ p[i] \in DigitSet THEN DigitsEnd(p, i + 1) ELSE i

RECURSIVE ToNat(_, _, _)
\* int(p[i:j])
ToNat(p, i, j) ==
    IF j <= i THEN 0 ELSE ToNat(p, i, j - 1) * 10 + (Ord(p[j - 1]) - 48)

\* The quantifier that starts at p[i]: [valid, min, max, pos], max = -1
\* for no upper limit.  A '{' that opens no {m}, {m,} or {m,n} is a literal.
Quantifier(p, i) ==
    CASE p[i] = "*" -> [valid |-> TRUE, min |-> 0, max |-> -1, pos |-> i + 1]
      [] p[i] = "+" -> [valid |-> TRUE, min |-> 1, max |-> -1, pos |-> i + 1]
      [] p[i] = "?" -> [valid |-> TRUE, min |-> 0, max |-> 1, pos |-> i + 1]
      [] p[i] = "{" ->
           IF i + 1 <= Len(p) /\ p[i + 1] = "}"
           THEN [valid |-> FALSE, min |-> 0, max |-> 0, pos |-> i]
           ELSE LET a == DigitsEnd(p, i + 1)
                    comma == a <= Len(p) /\ p[a] = ","
                    b == IF comma THEN DigitsEnd(p, a + 1) ELSE a
                    lo == IF a > i + 1 THEN ToNat(p, i + 1, a) ELSE 0
                    hi == IF ~comma THEN (IF a > i + 1 THEN lo ELSE -1)
                          ELSE IF b > a + 1 THEN ToNat(p, a + 1, b) ELSE -1
                IN IF b <= Len(p) /\ p[b] = "}"
                   THEN [valid |-> TRUE, min |-> lo, max |-> hi, pos |-> b + 1]
                   ELSE [valid |-> FALSE, min |-> 0, max |-> 0, pos |-> i]
      [] OTHER -> [valid |-> FALSE, min |-> 0, max |-> 0, pos |-> i]

CategorySet == { "d", "s", "w", "D", "S", "W" }
ControlEscape(e) ==
    CASE e = "n" -> "\n" [] e = "t" -> "\t" [] e = "r" -> "\r" [] OTHER -> "\f"

\* An escape outside a character set, p[i] = '\'.
ParseEscape(p, i, ng) ==
    IF i + 1 > Len(p) THEN ReError
    ELSE LET e == p[i + 1] IN
      CASE e \in CategorySet -> ReOk([k |-> "cat", c |-> e], i + 2, ng)
        [] e = "b" -> ReOk([k |-> "wordb"], i + 2, ng)
        [] e \in { "n", "t", "r", "f" } ->
             ReOk([k |-> "lit", c |-> ControlEscape(e)], i + 2, ng)
        [] e \in { "a", "v", "x", "u", "U", "N", "A", "Z", "B" } \cup DigitSet ->
             ReUnsupported
        [] e \in UpperSet \cup LowerSet -> ReError
        [] OTHER -> ReOk([k |-> "lit", c |-> e], i + 2, ng)

\* One member of a character set, at p[i]: [err, item, pos].
ParseClassCode(p, i) ==
    IF i > Len(p) THEN ReError
    ELSE IF p[i] # "\\" THEN [err |-> "", item |-> [k |-> "lit", c |-> p[i]], pos |-> i + 1]
    ELSE IF i + 1 > Len(p) THEN ReError
    ELSE LET e == p[i + 1] IN
      CASE e \in CategorySet -> [err |-> "", item |-> [k |-> "cat", c |-> e], pos |-> i + 2]
        [] e \in { "n", "t", "r", "f" } ->
             [err |-> "", item |-> [k |-> "lit", c |-> ControlEscape(e)], pos |-> i + 2]
        [] e \in { "a", "v", "x", "u", "U", "N", "b" } \cup DigitSet -> ReUnsupported
        [] e \in UpperSet \cup LowerSet -> ReError
        [] OTHER -> [err |-> "", item |-> [k |-> "lit", c |-> e], pos |-> i + 2]

RECURSIVE ParseClassItems(_, _, _)

\* A range c1-c2 inside a character set.
ClassRange(p, items, c1, c2) ==
    IF c2.err # "" THEN c2
    ELSE IF c1.item.k # "lit" \/ c2.item.k # "lit" THEN ReError
    ELSE IF ~IsAscii(c1.item.c) \/ ~IsAscii(c2.item.c) THEN ReUnsupported
    ELSE IF Ord(c2.item.c) < Ord(c1.item.c) THEN ReError
    ELSE ParseClassItems(p, c2.pos,
            Append(items, [k |-> "range", lo |-> Ord(c1.item.c),
                           hi |-> Ord(c2.item.c)]))

\* What follows the member c1 of a character set.
ClassAfterItem(p, items, c1) ==
    IF c1.err # "" THEN c1
    ELSE IF c1.pos <= Len(p) /\ p[c1.pos] = "-"
    THEN IF c1.pos + 1 > Len(p) THEN ReError
         ELSE IF p[c1.pos + 1] = "]"
         THEN [err |-> "",
               items |-> items \o << c1.item, [k |-> "lit", c |-> "-"] >>,
               pos |-> c1.pos + 2]
         ELSE ClassRange(p, items, c1, ParseClassCode(p, c1.pos + 1))
    ELSE ParseClassItems(p, c1.pos, Append(items, c1.item))

\* The members of a character set from p[i] to its closing ']'.
ParseClassItems(p, i, items) ==
    IF i > Len(p) THEN ReError
    ELSE IF p[i] = "]" /\ items # << >> THEN [err |-> "", items |-> items, pos |-> i + 1]
    ELSE ClassAfterItem(p, items, ParseClassCode(p, i))

ClassResult(neg, r, ng) ==
    IF r.err # "" THEN r
    ELSE ReOk([k |-> "class", neg |-> neg, items |-> r.items], r.pos, ng)

\* A character set, p[i] = '['.
ParseClass(p, i, ng) ==
    IF i + 1 <= Len(p) /\ p[i + 1] = "^"
    THEN ClassResult(TRUE, ParseClassItems(p, i + 2, << >>), ng)
    ELSE ClassResult(FALSE, ParseClassItems(p, i + 1, << >>), ng)

RECURSIVE ParseSub(_, _, _)
RECURSIVE ParseSeq(_, _, _, _)

\* The kind of group that opens at p[i] = '('.
GroupKind(p, i) ==
    IF ~(i + 1 <= Len(p) /\ p[i + 1] = "?") THEN "group"
    ELSE IF i + 2 > Len(p) THEN "error"
    ELSE CASE p[i + 2] = ":" -> "nc"
           [] p[i + 2] = "=" -> "look"
           [] p[i + 2] = "!" -> "neglook"
           [] p[i + 2] \in { "P", "<", "#", "(", "a", "i", "L", "m",
                             "s", "u", "x", "-" } -> "unsupported"
           [] OTHER -> "error"

\* The group whose content parsed as inner; it must close with ')'.
GroupResult(p, kind, idx, inner) ==
    IF inner.err # "" THEN inner
    ELSE IF inner.pos > Len(p) \/ p[inner.pos] # ")" THEN ReError
    ELSE ReOk(CASE kind = "group" -> [k |-> "group", idx |-> idx, x |-> inner.node]
                [] kind = "nc" -> inner.node
                [] OTHER -> [k |-> kind, x |-> inner.node],
              inner.pos + 1, inner.ng)

GroupOfKind(p, i, ng, kind) ==
    IF kind = "error" THEN ReError
    ELSE IF kind = "unsupported" THEN ReUnsupported
    ELSE GroupResult(p, kind, ng + 1,
                     ParseSub(p, IF kind = "group" THEN i + 1 ELSE i + 3,
                              IF kind = "group" THEN ng + 1 ELSE ng))

\* A parenthesised group, p[i] = '('.
ParseGroup(p, i, ng) == GroupOfKind(p, i, ng, GroupKind(p, i))

ParseAtom(p, i, ng) ==
    CASE p[i] = "." -> ReOk([k |-> "any"], i + 1, ng)
      [] p[i] = "^" -> ReOk([k |-> "bol"], i + 1, ng)
      [] p[i] = "$" -> ReOk([k |-> "eol"], i + 1, ng)
      [] p[i] = "\\" -> ParseEscape(p, i, ng)
      [] p[i] = "[" -> ParseClass(p, i, ng)
      [] p[i] = "(" -> ParseGroup(p, i, ng)
      [] OTHER -> ReOk([k |-> "lit", c |-> p[i]], i + 1, ng)

\* The items with the quantifier q applied to the last of them: [err, items, pos].
Quantified(p, items, q) ==
    IF items = << >> THEN ReError
    ELSE IF items[Len(items)].k \in { "bol", "eol", "wordb", "rep" } THEN ReError
    ELSE IF q.max # -1 /\ q.max < q.min THEN ReError
    ELSE IF q.pos <= Len(p) /\ p[q.pos] = "+" THEN ReUnsupported
    ELSE [err |-> "",
          items |-> Append(SubStr(items, 1, Len(items) - 1),
                           [k |-> "rep", x |-> items[Len(items)], min |-> q.min,
                            max |-> q.max, lazy |-> q.pos <= Len(p) /\ p[q.pos] = "?"]),
          pos |-> IF q.pos <= Len(p) /\ p[q.pos] = "?" THEN q.pos + 1 ELSE q.pos]

\* The next step of ParseSeq at p[i], given the quantifier q read there, the
\* items it would give and the atom a read there.
SeqStep(p, ng, items, q, quantified, a) ==
    IF q.valid
    THEN IF quantified.err # "" THEN quantified
         ELSE ParseSeq(p, quantified.pos, ng, quantified.items)
    ELSE IF a.err # "" THEN a
         ELSE ParseSeq(p, a.pos, a.ng, Append(items, a.node))

\* The items of one alternative, up to '|', ')' or the end of the pattern.
ParseSeq(p, i, ng, items) ==
    IF i > Len(p) \/ p[i] \in { "|", ")" }
    THEN ReOk([k |-> "seq", xs |-> items], i, ng)
    ELSE SeqStep(p, ng, items, Quantifier(p, i),
                 Quantified(p, items, Quantifier(p, i)), ParseAtom(p, i, ng))

RECURSIVE ParseAltRest(_, _, _, _)

\* The alternatives with the one that parsed as nxt added.
AltAfterSeq(p, alts, nxt) ==
    IF nxt.err # "" THEN nxt
    ELSE ParseAltRest(p, nxt.pos, nxt.ng, Append(alts, nxt.node))

ParseAltRest(p, i, ng, alts) ==
    IF i <= Len(p) /\ p[i] = "|"
    THEN AltAfterSeq(p, alts, ParseSeq(p, i + 1, ng, << >>))
    ELSE ReOk(IF Len(alts) = 1 THEN alts[1] ELSE [k |-> "alt", xs |-> alts], i, ng)

\* Alternatives separated by '|'.
ParseSub(p, i, ng) == AltAfterSeq(p, << >>, ParseSeq(p, i, ng, << >>))

\* The pattern must be used up.
WholePattern(p, r) ==
    IF r.err # "" THEN r
    ELSE IF r.pos <= Len(p) THEN ReError
    ELSE r

\* re.compile(p): the parsed pattern with its number of capture groups,
\* or ReError where re raises re.error.
re_compile(p) == WholePattern(p, ParseSub(p, 1, 0))

----------------------------------------------------------------------------
(* Matching: every way a pattern node matches at a position, best first *)

UpperChar(c) ==
    IF c \in LowerSet
    THEN AsciiChars[(CHOOSE i \in 98..123 : AsciiChars[i] = c) - 32]
    ELSE c

\* c belongs to the category \d, \s, \w or one of their complements.
CategoryHit(cat, c) ==
    CASE cat = "d" -> c \in DigitSet
      [] cat = "D" -> c \notin DigitSet
      [] cat = "s" -> IsSpace(c)
      [] cat = "S" -> ~IsSpace(c)
      [] cat = "w" -> IsWordChar(c)
      [] OTHER     -> ~IsWordChar(c)

ClassItemHit(item, c) ==
    CASE item.k = "lit"   -> c = item.c
      [] item.k = "range" -> IsAscii(c) /\ Ord(c) \in item.lo..item.hi
      [] OTHER            -> CategoryHit(item.c, c)

\* fl.ic is re.IGNORECASE, fl.dotall is re.DOTALL.
CharMatches(node, c, fl) ==
    CASE node.k = "lit" ->
           IF fl.ic THEN LowerChar(c) = LowerChar(node.c) ELSE c = node.c
      [] node.k = "any" -> fl.dotall \/ c # "\n"
      [] node.k = "cat" -> CategoryHit(node.c, c)
      [] OTHER ->
           LET forms == IF fl.ic THEN { c, LowerChar(c), UpperChar(c) } ELSE { c }
               hit == \E v \in forms : \E n \in 1..Len(node.items) :
                          ClassItemHit(node.items[n], v)
           IN hit # node.neg

\* \b at position i of s.
AtWordBoundary(s, i) ==
    LET before == i > 1 /\ IsWordChar(s[i - 1])
        after == i <= Len(s) /\ IsWordChar(s[i])
    IN before # after

\* $ at position i of s (no re.MULTILINE).
AtEnd(s, i) == i = Len(s) + 1 \/ (i = Len(s) /\ s[i] = "\n")

RECURSIVE Match(_, _, _, _, _)
RECURSIVE MatchSeq(_, _, _, _, _, _)
RECURSIVE ContinueSeq(_, _, _, _, _, _)
RECURSIVE MatchAlt(_, _, _, _, _, _)
RECURSIVE MatchRep(_, _, _, _, _, _)
RECURSIVE ContinueRep(_, _, _, _, _, _, _)

\* The items xs[k..] matched one after another from position i.
MatchSeq(xs, k, s, i, caps, fl) ==
    IF k > Len(xs) THEN << [e |-> i, caps |-> caps] >>
    ELSE ContinueSeq(Match(xs[k], s, i, caps, fl), 1, xs, k + 1, s, fl)

ContinueSeq(outs, j, xs, k, s, fl) ==
    IF j > Len(outs) THEN << >>
    ELSE MatchSeq(xs, k, s, outs[j].e, outs[j].caps, fl)
         \o ContinueSeq(outs, j + 1, xs, k, s, fl)

\* The alternatives xs[k..], the leftmost first.
MatchAlt(xs, k, s, i, caps, fl) ==
    IF k > Len(xs) THEN << >>
    ELSE Match(xs[k], s, i, caps, fl) \o MatchAlt(xs, k + 1, s, i, caps, fl)

\* A repetition that has made count iterations and stands at position i.
\* An iteration that consumed nothing ends the repetition where it stands.
MatchRep(rep, count, s, i, caps, fl) ==
    LET more == IF rep.max = -1 \/ count < rep.max
                THEN ContinueRep(Match(rep.x, s, i, caps, fl), 1, rep, count, s, i, fl)
                ELSE << >>
        stop == IF count >= rep.min THEN << [e |-> i, caps |-> caps] >> ELSE << >>
    IN IF rep.lazy THEN stop \o more ELSE more \o stop

ContinueRep(outs, j, rep, count, s, i, fl) ==
    IF j > Len(outs) THEN << >>
    ELSE (IF outs[j].e = i /\ count >= rep.min
          THEN << [e |-> i, caps |-> outs[j].caps] >>
          ELSE MatchRep(rep, count + 1, s, outs[j].e, outs[j].caps, fl))
         \o ContinueRep(outs, j + 1, rep, count, s, i, fl)

\* Every way node matches s at position i, in the order in which the
\* backtracking matcher tries them: [e, caps] with e the position after
\* the match and caps the capture groups' spans (<<0, 0>> when unset).
Match(node, s, i, caps, fl) ==
    CASE node.k \in { "lit", "any", "cat", "class" } ->
           IF i <= Len(s) /\ CharMatches(node, s[i], fl)
           THEN << [e |-> i + 1, caps |-> caps] >> ELSE << >>
      [] node.k = "seq" -> MatchSeq(node.xs, 1, s, i, caps, fl)
      [] node.k = "alt" -> MatchAlt(node.xs, 1, s, i, caps, fl)
      [] node.k = "rep" -> MatchRep(node, 0, s, i, caps, fl)
      [] node.k = "group" ->
           LET outs == Match(node.x, s, i, caps, fl)
           IN [j \in 1..Len(outs) |->
                 [e |-> outs[j].e,
                  caps |-> [outs[j].caps EXCEPT ![node.idx] = << i, outs[j].e >>]]]
      [] node.k = "look" ->
           LET outs == Match(node.x, s, i, caps, fl)
           IN IF outs = << >> THEN << >> ELSE << [e |-> i, caps |-> outs[1].caps] >>
      [] node.k = "neglook" ->
           IF Match(node.x, s, i, caps, fl) = << >>
           THEN << [e |-> i, caps |-> caps] >> ELSE << >>
      [] node.k = "bol" -> IF i = 1 THEN << [e |-> i, caps |-> caps] >> ELSE << >>
      [] node.k = "eol" ->
           IF AtEnd(s, i) THEN << [e |-> i, caps |-> caps] >> ELSE << >>
      [] OTHER ->
           IF AtWordBoundary(s, i) THEN << [e |-> i, caps |-> caps] >> ELSE << >>

NoMatch == [found |-> FALSE]

RECURSIVE SearchFrom(_, _, _, _)
SearchFrom(re, s, start, fl) ==
    IF start > Len(s) + 1 THEN NoMatch
    ELSE LET outs == Match(re.node, s, start, [g \in 1..re.ng |-> << 0, 0 >>], fl)
         IN IF outs # << >>
            THEN [found |-> TRUE, start |-> start, e |-> outs[1].e,
                  caps |-> outs[1].caps, ng |-> re.ng]
            ELSE SearchFrom(re, s, start + 1, fl)

\* re.search(pattern, s, flags) for a compiled pattern: the leftmost match.
re_search(re, s, fl) == SearchFrom(re, s, 1, fl)

\* match.group(g): the captured text, or None for a group that took no part.
MatchGroup(m, s, g) ==
    IF m.caps[g] = << 0, 0 >> THEN None
    ELSE Str(SubStr(s, m.caps[g][1], m.caps[g][2] - 1))

----------------------------------------------------------------------------
(* parsing_tools: extract_key_value and extract_regex_pattern *)

\* The characters re.escape puts a backslash before.
EscapeSet ==
    { "(", ")", "[", "]", "{", "}", "?", "*", "+", "-", "|", "^", "$", "\\",
      ".", "&", "~", "#", " ", "\t", "\n", "\r", "U+11", "\f" }

RECURSIVE re_escape(_)
re_escape(s) ==
    IF s = << >> THEN << >>
    ELSE (IF Head(s) \in EscapeSet THEN << "\\", Head(s) >> ELSE << Head(s) >>)
         \o re_escape(Tail(s))

\* The pattern of line 32, r'[|\[\](){}.*+?]': one regex metacharacter.
DelimiterMetaSet == { "|", "[", "]", "(", ")", "{", "}", ".", "*", "+", "?" }

\* Lines 32-37: the delimiter is used as it is when it starts with \s* or
\* holds a metacharacter, and is escaped otherwise.
DelimiterRegex(raw) ==
    IF StartsWithAt(raw, 1, << "\\", "s", "*" >>)
       \/ \E i \in 1..Len(raw) : raw[i] \in DelimiterMetaSet
    THEN raw
    ELSE re_escape(raw)

RECURSIVE EscapedPatterns(_, _)
\* [re.escape(k.strip()) for k in key_patterns if k.strip()], or the
\* AttributeError of an element that has no strip().
EscapedPatterns(items, i) ==
    IF i > Len(items) THEN List(<< >>)
    ELSE IF ~IsStr(items[i]) THEN Exc("AttributeError")
    ELSE LET rest == EscapedPatterns(items, i + 1)
             k == Strip(items[i].v)
         IN IF IsExc(rest) THEN rest
            ELSE IF k = << >> THEN rest
            ELSE List(<< re_escape(k) >> \o rest.v)

RECURSIVE JoinWith(_, _)
\* sep.join(parts)
JoinWith(parts, sep) ==
    IF parts = << >> THEN << >>
    ELSE IF Len(parts) = 1 THEN parts[1]
    ELSE parts[1] \o sep \o JoinWith(Tail(parts), sep)

\* rf"(?:{'|'.join(escaped_patterns)})\s*{delimiter_regex}\s*(.*?)(?=\n|$)"
FullPattern(escaped, delimiter_regex) ==
    << "(", "?", ":" >> \o JoinWith(escaped, << "|" >>) \o << ")", "\\", "s", "*" >>
        \o delimiter_regex
        \o << "\\", "s", "*", "(", ".", "*", "?", ")",
              "(", "?", "=", "\\", "n", "|", "$", ")" >>

\* match.group(1).strip(): None has no strip().
GroupOneStripped(m, s) ==
    LET g == MatchGroup(m, s, 1)
    IN IF IsStr(g) THEN Str(Strip(g.v)) ELSE Exc("AttributeError")

\* A pattern the model's regex subset cannot express must not be given.
Unsupported == Exc("UnsupportedPattern")

\* Lines 57-61: the stripped first group of a match, "" without a match.
FirstGroup(s, m) == IF m.found THEN GroupOneStripped(m, s) ELSE EmptyStr

\* Lines 55-61, with full_pattern compiled to re; re.error is not caught.
KeyValueSearch(text, re) ==
    IF re.err = "error" THEN Exc("re.error")
    ELSE IF re.err # "" THEN Unsupported
    ELSE FirstGroup(text.v, re_search(re, text.v, [ic |-> TRUE, dotall |-> FALSE]))

\* Lines 46-61, with the escaped key patterns.
KeyValueEscaped(text, raw_delimiter, escaped) ==
    IF IsExc(escaped) THEN escaped
    ELSE IF escaped.v = << >> THEN EmptyStr
    ELSE KeyValueSearch(text, re_compile(FullPattern(escaped.v,
                                                     DelimiterRegex(raw_delimiter.v))))

\* Line 44 over the elements of key_patterns.
EscapedFrom(items) == IF IsExc(items) THEN items ELSE EscapedPatterns(items.v, 1)

\* Lines 29-61, with the rule's parameters read.
KeyValueWith(text, key_patterns, raw_delimiter) ==
    IF IsExc(key_patterns) THEN key_patterns
    ELSE IF ~IsStr(raw_delimiter) THEN Exc("AttributeError")
    ELSE IF ~Truthy(text) \/ ~Truthy(key_patterns) THEN EmptyStr
    ELSE IF key_patterns.t = "dict" THEN Unsupported
    ELSE KeyValueEscaped(text, raw_delimiter, EscapedFrom(IterItems(key_patterns)))

extract_key_value(text, config) ==
    KeyValueWith(text, DictGet(config, "key_patterns", EmptyList),
                 DictGet(config, "delimiter", Str(<< ":" >>)))

\* Lines 90-91: the stripped first group of a match of a pattern with groups.
FirstGroupIfAny(s, m) ==
    IF m.found /\ m.ng > 0 THEN GroupOneStripped(m, s) ELSE EmptyStr

\* Lines 84-97, with pattern compiled to re; re.error is caught.
RegexSearch(text, re) ==
    IF re.err = "error" THEN EmptyStr
    ELSE IF re.err # "" THEN Unsupported
    ELSE FirstGroupIfAny(text.v, re_search(re, text.v, [ic |-> TRUE, dotall |-> TRUE]))

\* Lines 81-97, with the rule's pattern read.
RegexWith(text, pattern) ==
    IF IsExc(pattern) THEN pattern
    ELSE IF ~Truthy(text) \/ ~Truthy(pattern) THEN EmptyStr
    ELSE IF ~IsStr(pattern) THEN Exc("TypeError")
    ELSE RegexSearch(text, re_compile(pattern.v))

extract_regex_pattern(text, config) ==
    RegexWith(text, DictGet(config, "pattern", EmptyStr))

----------------------------------------------------------------------------
(* email_parser: get_header and parse_email *)

RECURSIVE HeaderScan(_, _, _)
\* The for-loop of get_header over the elements of headers.
HeaderScan(items, i, name) ==
    IF i > Len(items) THEN EmptyStr
    ELSE LET n == DictGet(items[i], "name", EmptyStr)
         IN IF IsExc(n) THEN n
            ELSE IF ~IsStr(n) \/ ~IsStr(name) THEN Exc("AttributeError")
            ELSE IF Lower(n.v) = Lower(name.v)
                 THEN DictGet(items[i], "value", EmptyStr)
                 ELSE HeaderScan(items, i + 1, name)

get_header(headers, name) ==
    LET items == IterItems(headers)
    IN IF IsExc(items) THEN items ELSE HeaderScan(items.v, 1, name)

\* parsed[key] = value
DictSet(d, key, value) ==
    Dict([k \in DOMAIN d.v \cup { key } |-> IF k = key THEN value ELSE d.v[k]])

\* The value one rule extracts (lines 175-185); "" for an unknown method.
ExtractedValue(instruction, method, headers, body) ==
    IF PyEq(method, Name("header"))
    THEN LET header_name == DictGet(instruction, "header_name", EmptyStr)
         IN IF IsExc(header_name) THEN header_name
            ELSE get_header(headers, header_name)
    ELSE IF PyEq(method, Name("key_value")) THEN extract_key_value(body, instruction)
    ELSE IF PyEq(method, Name("regex_pattern")) THEN extract_regex_pattern(body, instruction)
    ELSE EmptyStr

\* parsed[output_field] = extracted_value without the test of line 188.
StoreFieldAlways(parsed, output_field, extracted_value) ==
    IF output_field.t = "name" THEN DictSet(parsed, output_field.v, extracted_value)
    ELSE parsed

\* Lines 188-189 with the first value kept: a key that is in the mapping is
\* not written again.
StoreFieldOnce(parsed, output_field, extracted_value) ==
    IF output_field.t = "name" /\ output_field.v \in DOMAIN parsed.v THEN parsed
    ELSE IF Truthy(extracted_value) /\ Truthy(output_field)
    THEN IF output_field.t = "name"
         THEN DictSet(parsed, output_field.v, extracted_value)
         ELSE Unsupported
    ELSE parsed

\* Lines 188-189: the field is stored when a value was found and the rule
\* names its field.
StoreField(parsed, output_field, extracted_value) ==
    IF Truthy(extracted_value) /\ Truthy(output_field)
    THEN IF output_field.t = "name"
         THEN DictSet(parsed, output_field.v, extracted_value)
         ELSE Unsupported
    ELSE parsed

RECURSIVE ApplyRules(_, _, _, _, _)

\* The loop goes on with the next rule unless storing raised.
AfterStore(rules, i, headers, body, stored) ==
    IF IsExc(stored) THEN stored
    ELSE ApplyRules(rules, i + 1, stored, headers, body)

\* Lines 171-189 for rule i, with its output_field and extracted_value.
RuleStep(rules, i, parsed, headers, body, output_field, extracted_value) ==
    IF IsExc(output_field) THEN output_field
    ELSE IF IsExc(extracted_value) THEN extracted_value
    ELSE AfterStore(rules, i, headers, body,
                    StoreField(parsed, output_field, extracted_value))

\* The loop over config.PARSING_MAP (lines 170-189), from rule i on.
ApplyRules(rules, i, parsed, headers, body) ==
    IF i > Len(rules) THEN parsed
    ELSE RuleStep(rules, i, parsed, headers, body,
                  DictGet(rules[i], "output_field", None),
                  ExtractedValue(rules[i], DictGet(rules[i], "method", None),
                                 headers, body))

RECURSIVE SplitOn(_, _)
\* s.split(sep) for a one-character sep.
SplitOn(s, sep) ==
    LET i == IndexOfChar(s, sep, 1)
    IN IF i = 0 THEN << s >>
       ELSE << SubStr(s, 1, i - 1) >> \o SplitOn(SubStr(s, i + 1, Len(s)), sep)

RECURSIVE StripNonEmpty(_)
\* [kw.strip() for kw in parts if kw.strip()]
StripNonEmpty(parts) ==
    IF parts = << >> THEN << >>
    ELSE (IF Strip(Head(parts)) = << >> THEN << >> ELSE << Strip(Head(parts)) >>)
         \o StripNonEmpty(Tail(parts))

priority_keywords(keywords) == StripNonEmpty(SplitOn(keywords, ","))

\* x or '' inside the f-string of line 192, for a str or a falsy x.
OrEmpty(x) == IF Truthy(x) THEN x.v ELSE << >>

combined_content(subject, body, from_raw) ==
    Strip(CollapseSpaces(
        Lower(OrEmpty(subject) \o << " " >> \o OrEmpty(body) \o << " " >> \o OrEmpty(from_raw)),
        1))

\* re.search(rf"\b{re.escape(kw.lower())}\b", combined_content)
KeywordHit(kw, content) ==
    LET re == re_compile(<< "\\", "b" >> \o re_escape(Lower(kw)) \o << "\\", "b" >>)
    IN re_search(re, content, [ic |-> FALSE, dotall |-> FALSE]).found

\* The priority loop of lines 198-203.
Priority(parsed, keywords, content) ==
    IF \E k \in 1..Len(keywords) : KeywordHit(keywords[k], content)
    THEN DictSet(parsed, "Priority", Name("High"))
    ELSE parsed

\* Lines 159-167: the mapping before the rules are applied.
StandardFields(full_message, subject, from_raw, date, body) ==
    Dict([k \in { "Message ID", "Thread ID", "Subject", "From", "Date",
                  "Body (plain)", "Priority" } |->
             CASE k = "Message ID" -> DictGet(full_message, "id", None)
               [] k = "Thread ID" -> DictGet(full_message, "threadId", None)
               [] k = "Subject" -> subject
               [] k = "From" -> from_raw
               [] k = "Date" -> date
               [] k = "Body (plain)" -> body
               [] k = "Priority" -> Name("Normal")])

\* A str, or a falsy value that `x or ''` replaces.
TextOk(x) == IsStr(x) \/ ~Truthy(x)

\* Lines 191-207, with the mapping the rules have filled.
ParseMapped(keywords, subject, body, from_raw, mapped) ==
    IF IsExc(mapped) THEN mapped
    ELSE IF ~IsStr(keywords) THEN Exc("AttributeError")
    ELSE IF ~TextOk(from_raw) \/ ~(TextOk(subject) \/ subject.t = "int") THEN Unsupported
    \* len(subject) in the logging call of lines 205-206
    ELSE IF ~IsStr(subject) THEN Exc("TypeError")
    ELSE Priority(mapped, priority_keywords(keywords.v),
                  combined_content(subject, body, from_raw))

\* Lines 159-207, with the standard fields read.
ParseFields(full_message, rules, keywords, headers, subject, from_raw, date, body) ==
    IF IsExc(subject) THEN subject
    ELSE IF IsExc(from_raw) THEN from_raw
    ELSE IF IsExc(date) THEN date
    ELSE IF IsExc(body) THEN body
    ELSE ParseMapped(keywords, subject, body, from_raw,
                     ApplyRules(rules, 1,
                                StandardFields(full_message, subject, from_raw, date, body),
                                headers, body))

\* Lines 153-207, with the headers read.
ParseHeaders(full_message, rules, keywords, msg_payload, headers) ==
    IF IsExc(headers) THEN headers
    ELSE ParseFields(full_message, rules, keywords, headers,
                     get_header(headers, Str(<< "S", "u", "b", "j", "e", "c", "t" >>)),
                     get_header(headers, Str(<< "F", "r", "o", "m" >>)),
                     get_header(headers, Str(<< "D", "a", "t", "e" >>)),
                     extract_text_body(msg_payload))

\* Lines 151-207, with the payload read.
ParsePayload(full_message, rules, keywords, msg_payload) ==
    IF IsExc(msg_payload) THEN msg_payload
    ELSE ParseHeaders(full_message, rules, keywords, msg_payload,
                      DictGet(msg_payload, "headers", EmptyList))

parse_email(full_message, rules, keywords) ==
    ParsePayload(full_message, rules, keywords,
                 DictGet(full_message, "payload", EmptyDict))

----------------------------------------------------------------------------
(* Payload trees handed to extract_text_body *)

\* The largest number of MIME nodes in a payload tree.
MaxNodes == 4

\* base64url of "Plain", "<b>Rich</b>", "<br>" and "Raw", without padding.
B64Plain == << "U", "G", "x", "h", "a", "W", "4" >>
B64Rich == << "P", "G", "I", "-", "U", "m", "l", "j", "a", "D", "w", "v", "Y", "j", "4" >>
B64Br == << "P", "G", "J", "y", "P", "g" >>
B64Raw == << "U", "m", "F", "3" >>
\* One data character: not decodable (1 more than a multiple of 4).
B64Bad == << "U" >>

MultipartAlternative ==
    << "m", "u", "l", "t", "i", "p", "a", "r", "t", "/",
       "a", "l", "t", "e", "r", "n", "a", "t", "i", "v", "e" >>
MultipartMixed ==
    << "m", "u", "l", "t", "i", "p", "a", "r", "t", "/", "m", "i", "x", "e", "d" >>
ImagePng == << "i", "m", "a", "g", "e", "/", "p", "n", "g" >>

Leaf(mime, data) == Dict([mimeType |-> Str(mime), body |-> Dict([data |-> Str(data)])])
LeafNoData(mime) == Dict([mimeType |-> Str(mime), body |-> Dict([size |-> PyInt(0)])])

Leaves ==
    { Leaf(TextPlain, B64Plain), Leaf(TextHtml, B64Rich), LeafNoData(TextPlain),
      Leaf(TextHtml, B64Br), Leaf(TextPlain, B64Bad), Leaf(ImagePng, B64Raw) }

ContainerKinds == { "alternative", "mixed_with_body", "plain_with_parts" }

Container(kind, children) ==
    CASE kind = "alternative" ->
           Dict([mimeType |-> Str(MultipartAlternative),
                 body |-> Dict([size |-> PyInt(0)]), parts |-> List(children)])
      [] kind = "mixed_with_body" ->
           Dict([mimeType |-> Str(MultipartMixed),
                 body |-> Dict([data |-> Str(B64Raw)]), parts |-> List(children)])
      [] OTHER ->
           Dict([mimeType |-> Str(TextPlain),
                 body |-> Dict([data |-> Str(B64Plain)]), parts |-> List(children)])

RECURSIVE TreesOfSize(_)
RECURSIVE ForestsOfSize(_)
\* The payload trees with exactly n nodes.
TreesOfSize(n) ==
    IF n = 1 THEN Leaves
    ELSE { Container(k, f) : k \in ContainerKinds, f \in ForestsOfSize(n - 1) }
\* The sequences of trees with n nodes in all.
ForestsOfSize(n) ==
    IF n = 0 THEN { << >> }
    ELSE UNION { { << t >> \o f : t \in TreesOfSize(k), f \in ForestsOfSize(n - k) }
                 : k \in 1..n }

Payloads(nodes) == UNION { TreesOfSize(n) : n \in 1..nodes }

\* The value of a result variable before the function has run.
NotRun == [t |-> "notrun"]

----------------------------------------------------------------------------
(* Specification of extract_text_body on its own *)

bodyVars == << payload, body_out >>
parseVars == << message, PARSING_MAP, HIGH_PRIORITY_KEYWORDS, parse_out >>
apiVars == << requests, slept >>
fetchVars == << all_ids, page_token, unique_ids >>
pipeVars == << pc, sheet_header, sheet_rows, messages, rows, processed_ids,
               cursor, attempt, header_status, append_status, marked, unread,
               apiVars, fetchVars >>

callVars == << called, args, ret >>
threadVars == << inbox, calls, frames, log >>

\* The variables of a part of the program that a specification leaves out.
BodyIdle == payload = None /\ body_out = NotRun
ParseIdle ==
    /\ message = None
    /\ PARSING_MAP = << >>
    /\ HIGH_PRIORITY_KEYWORDS = EmptyStr
    /\ parse_out = NotRun
ApiIdle == requests = << >> /\ slept = << >>
FetchIdle == all_ids = << >> /\ page_token = None /\ unique_ids = << >>
PipeIdle ==
    /\ pc = "idle"
    /\ sheet_header = << >>
    /\ sheet_rows = << >>
    /\ messages = << >>
    /\ rows = << >>
    /\ processed_ids = << >>
    /\ cursor = 0
    /\ attempt = 0
    /\ header_status = "none"
    /\ append_status = "none"
    /\ marked = << >>
    /\ unread = {}
    /\ ApiIdle
    /\ FetchIdle
CallIdle == called = "none" /\ args = << >> /\ ret = NotRun
ThreadIdle == inbox = << >> /\ calls = << >> /\ frames = << >> /\ log = << >>

InitBody ==
    /\ payload \in Payloads(MaxNodes)
    /\ body_out = NotRun
    /\ ParseIdle
    /\ PipeIdle
    /\ CallIdle
    /\ ThreadIdle

\* body = extract_text_body(payload)
ExtractTextBody ==
    /\ body_out = NotRun
    /\ body_out' = extract_text_body(payload)
    /\ UNCHANGED << payload, parseVars, pipeVars, callVars, threadVars >>

NextBody == ExtractTextBody

SpecBody == InitBody /\ [][NextBody]_vars

----------------------------------------------------------------------------
(* Claims about extract_text_body *)

\* The immediate children of a payload node.
ChildrenOf(node) == IF "parts" \in DOMAIN node.v THEN node.v.parts.v ELSE << >>
MimeOf(node) == node.v.mimeType.v
\* The node carries non-empty inline body data.
HasData(node) == Truthy(BodyData(node))
IsTextChild(node, mime) == MimeOf(node) = mime /\ HasData(node)

\* The markup-free text of a text/plain or text/html node.
ContentOf(node) ==
    IF MimeOf(node) = TextHtml THEN strip_html(safe_b64_decode(BodyData(node)))
    ELSE safe_b64_decode(BodyData(node))

RECURSIVE NodesWithData(_)
RECURSIVE NodesWithDataIn(_, _)
\* The nodes of a tree that carry non-empty body data, in document order.
NodesWithData(node) ==
    (IF HasData(node) THEN << node >> ELSE << >>)
        \o NodesWithDataIn(ChildrenOf(node), 1)
NodesWithDataIn(children, i) ==
    IF i > Len(children) THEN << >>
    ELSE NodesWithData(children[i]) \o NodesWithDataIn(children, i + 1)

\* C1: a payload that is not itself text/plain and has both a text/plain
\* child with data and a text/html child with data yields the decoded
\* text/plain content, whichever sibling comes first.
C1_PlainWinsOverHtmlSibling ==
    LET kids == ChildrenOf(payload)
    IN ( /\ body_out # NotRun
         /\ MimeOf(payload) # TextPlain
         /\ \E i \in 1..Len(kids) : IsTextChild(kids[i], TextPlain)
         /\ \E j \in 1..Len(kids) : IsTextChild(kids[j], TextHtml) )
       => \E i \in 1..Len(kids) :
             /\ IsTextChild(kids[i], TextPlain)
             /\ body_out = safe_b64_decode(BodyData(kids[i]))

\* C2: a payload whose only content is one text/html body, held by a child
\* part or by the payload itself, yields that body stripped of its markup.
C2_HtmlOnlyIsStripped ==
    LET content == NodesWithData(payload)
    IN ( /\ body_out # NotRun
         /\ Len(content) = 1
         /\ MimeOf(content[1]) = TextHtml )
       => body_out = strip_html(safe_b64_decode(BodyData(content[1])))

\* C10: when an immediate text/plain or text/html child with data and a
\* container child with nested content both exist, the result is the
\* content of an immediate text child, wherever the container stands.
C10_ImmediateChildBeforeNested ==
    LET kids == ChildrenOf(payload)
        IsText(k) == IsTextChild(k, TextPlain) \/ IsTextChild(k, TextHtml)
    IN ( /\ body_out # NotRun
         /\ MimeOf(payload) # TextPlain
         /\ \E i \in 1..Len(kids) : IsText(kids[i])
         /\ \E j \in 1..Len(kids) :
               /\ Len(ChildrenOf(kids[j])) > 0
               /\ Len(NodesWithDataIn(ChildrenOf(kids[j]), 1)) > 0 )
       => \E i \in 1..Len(kids) : IsText(kids[i]) /\ body_out = ContentOf(kids[i])

----------------------------------------------------------------------------
\* The text that the base64url data of the model's leaves stands for.
PlainText == << "P", "l", "a", "i", "n" >>

\* C11: a payload whose own mimeType is text/plain yields the decoding of
\* its own inline body data, the empty string when that data is absent or
\* not decodable, whatever its parts hold.
C11_OwnPlainReturnsOwnData ==
    (body_out # NotRun /\ MimeOf(payload) = TextPlain) =>
        /\ body_out = safe_b64_decode(BodyData(payload))
        /\ BodyData(payload) = Str(B64Plain) => body_out = Str(PlainText)
        /\ BodyData(payload) \in { EmptyStr, Str(B64Bad) } => body_out = EmptyStr

\* A text/plain payload with a text child that carries other content.
C11_Witness ==
    /\ body_out = Str(PlainText)
    /\ MimeOf(payload) = TextPlain
    /\ \E i \in 1..Len(ChildrenOf(payload)) :
          /\ HasData(ChildrenOf(payload)[i])
          /\ MimeOf(ChildrenOf(payload)[i]) = TextHtml

----------------------------------------------------------------------------
\* What a child of the payload offers to the search: the content of a
\* text/plain or text/html child with data, else what its nested parts yield.
Offered(kid) ==
    IF IsTextChild(kid, TextPlain) \/ IsTextChild(kid, TextHtml) THEN ContentOf(kid)
    ELSE IF Len(ChildrenOf(kid)) > 0 THEN extract_text_body(kid)
    ELSE EmptyStr

\* C12: the result is the empty string only when nothing matches: no child
\* offers non-empty text and the payload's own inline data decodes to none.
C12_EmptyOnlyWhenNothingMatches ==
    (body_out = EmptyStr /\ MimeOf(payload) # TextPlain) =>
        /\ \A i \in 1..Len(ChildrenOf(payload)) :
              Offered(ChildrenOf(payload)[i]) = EmptyStr
        /\ safe_b64_decode(BodyData(payload)) = EmptyStr

----------------------------------------------------------------------------
(* Messages, rule sets and keyword lists handed to parse_email *)

\* The largest number of rules in PARSING_MAP.
MaxRules == 2

\* Header names.
HSubject == << "S", "u", "b", "j", "e", "c", "t" >>
HFrom == << "F", "r", "o", "m" >>
HDate == << "D", "a", "t", "e" >>

\* Header values.
SubjOrder == << "O", "r", "d", "e", "r" >>
SubjUrgent ==
    << "U", "R", "G", "E", "N", "T", ":", " ", "p", "l", "e", "a", "s", "e",
       " ", "r", "e", "f", "u", "n", "d" >>
SubjUrgently == << "u", "r", "g", "e", "n", "t", "l", "y" >>
SubjTagged ==
    << "[", "U", "R", "G", "E", "N", "T", "]", " ", "d", "o", "w", "n" >>
FromAnn == << "a", "@", "x", ".", "o", "r", "g" >>
DateJan == << "1", " ", "J", "a", "n", " ", "2", "0", "2", "4" >>

\* base64url of "Status: ok\nTotal - 20", "hi" and "prefund".
B64BodyOrder ==
    << "U", "3", "R", "h", "d", "H", "V", "z", "O", "i", "B", "v", "a", "w",
       "p", "U", "b", "3", "R", "h", "b", "C", "A", "t", "I", "D", "I", "w" >>
B64BodyHi == << "a", "G", "k" >>
B64BodyPrefund == << "c", "H", "J", "l", "Z", "n", "V", "u", "Z", "A" >>

Header(name, value) == Dict([name |-> Str(name), value |-> Str(value)])

\* A single-part text/plain payload.
PlainPayload(headers, body) ==
    Dict([headers |-> headers, mimeType |-> Str(TextPlain), body |-> body])

\* A message resource as users.messages.get(format='full') delivers it.
FullMessage(id, msg_payload) ==
    Dict([id |-> Name(id), threadId |-> Name("t1"), payload |-> msg_payload])

Msg(id, headers, data) ==
    FullMessage(id, PlainPayload(List(headers), Dict([data |-> Str(data)])))

MsgOrder ==
    Msg("m1", << Header(HSubject, SubjOrder), Header(HFrom, FromAnn),
                 Header(HDate, DateJan) >>, B64BodyOrder)
MsgUrgent ==
    Msg("m2", << Header(HFrom, FromAnn), Header(HSubject, SubjUrgent) >>, B64BodyHi)
MsgUrgently == Msg("m3", << Header(HSubject, SubjUrgently) >>, B64BodyPrefund)
MsgTagged == Msg("m4", << Header(HSubject, SubjTagged) >>, B64BodyHi)

WellFormedMessages == { MsgOrder, MsgUrgent, MsgUrgently, MsgTagged }

OrderHeaders == << Header(HSubject, SubjOrder), Header(HFrom, FromAnn) >>
OrderBody == Dict([data |-> Str(B64BodyOrder)])

\* Messages that lack a part, or hold null where a value is expected.
MessageShapes ==
    { \* no payload, a null payload
      Dict([id |-> Name("m1"), threadId |-> Name("t1")]),
      FullMessage("m1", None),
      \* no headers, null headers
      FullMessage("m1", Dict([mimeType |-> Str(TextPlain), body |-> OrderBody])),
      FullMessage("m1", PlainPayload(None, OrderBody)),
      \* a header entry without a name, with a null name
      FullMessage("m1", PlainPayload(
          List(<< Dict([value |-> Str(FromAnn)]) >> \o OrderHeaders), OrderBody)),
      FullMessage("m1", PlainPayload(
          List(<< Dict([name |-> None, value |-> Str(FromAnn)]) >> \o OrderHeaders),
          OrderBody)),
      \* a Subject entry without a value, with a null value; a null From value
      FullMessage("m1", PlainPayload(List(<< Dict([name |-> Str(HSubject)]) >>), OrderBody)),
      FullMessage("m1", PlainPayload(
          List(<< Dict([name |-> Str(HSubject), value |-> None]) >>), OrderBody)),
      FullMessage("m1", PlainPayload(
          List(<< Header(HSubject, SubjOrder), Dict([name |-> Str(HFrom), value |-> None]) >>),
          OrderBody)),
      \* no ids
      Dict([payload |-> PlainPayload(List(OrderHeaders), OrderBody)]),
      \* no body data, undecodable body data, a null body
      FullMessage("m1", PlainPayload(List(OrderHeaders), Dict([size |-> PyInt(0)]))),
      FullMessage("m1", PlainPayload(List(OrderHeaders), Dict([data |-> Str(B64Bad)]))),
      FullMessage("m1", PlainPayload(List(OrderHeaders), None)) }

Messages == WellFormedMessages \cup MessageShapes

\* Rule parameters.
KeyStatus == << "S", "t", "a", "t", "u", "s" >>
KeyTotal == << "T", "o", "t", "a", "l" >>
DelimDefault ==
    << "\\", "s", "*", "[", ":", "\\", "-", "\\", "#", "]", "\\", "s", "*" >>
PatTotalDigit ==
    << "T", "o", "t", "a", "l", "\\", "W", "+", "(", "\\", "d", ")" >>

KeyValueRule(output_field, key, delimiter) ==
    Dict([output_field |-> Name(output_field), method |-> Name("key_value"),
          key_patterns |-> List(<< Str(key) >>), delimiter |-> Str(delimiter)])
RegexRule(output_field, pattern) ==
    Dict([output_field |-> Name(output_field), method |-> Name("regex_pattern"),
          pattern |-> pattern])
HeaderRule(output_field, header_name) ==
    Dict([output_field |-> Name(output_field), method |-> Name("header"),
          header_name |-> Str(header_name)])

\* Rules as config.PARSING_MAP writes them; two of them share a column.
WellFormedRules ==
    { KeyValueRule("Order Status", KeyStatus, << ":" >>),
      KeyValueRule("Total Amount", KeyTotal, DelimDefault),
      RegexRule("Total Amount", Str(PatTotalDigit)),
      HeaderRule("Sender", Lower(HFrom)) }

\* A rule without the parameters of its method, one with a parameter of the
\* wrong type, one with a pattern that does not compile and one with a
\* delimiter that is not a regex fragment.
MalformedRules ==
    { Dict([output_field |-> Name("Notes"), method |-> Name("key_value")]),
      RegexRule("Notes", PyInt(5)),
      RegexRule("Notes", Str(<< "(" >>)),
      KeyValueRule("Notes", KeyStatus, << "[" >>) }

RulePool == WellFormedRules \cup MalformedRules

RECURSIVE SeqsOver(_, _)
\* The sequences over S of length n.
SeqsOver(S, n) ==
    IF n = 0 THEN { << >> }
    ELSE { << x >> \o rest : x \in S, rest \in SeqsOver(S, n - 1) }

RuleLists == UNION { SeqsOver(RulePool, n) : n \in 0..MaxRules }

\* Values of HIGH_PRIORITY_KEYWORDS.
KwDefault ==
    << "u", "r", "g", "e", "n", "t", ",", " ", "r", "e", "f", "u", "n", "d" >>
KwBlank == << " ", ",", " ", "," >>
KwTagged == << "[", "u", "r", "g", "e", "n", "t", "]" >>
KeywordConfigs == { EmptyStr, Str(KwDefault), Str(KwBlank), Str(KwTagged) }

----------------------------------------------------------------------------
(* Specification of parse_email on its own *)

InitParse ==
    /\ message \in Messages
    /\ \/ PARSING_MAP \in RuleLists /\ HIGH_PRIORITY_KEYWORDS = Str(KwDefault)
       \/ PARSING_MAP = << >> /\ HIGH_PRIORITY_KEYWORDS \in KeywordConfigs
    /\ parse_out = NotRun
    /\ BodyIdle
    /\ PipeIdle
    /\ CallIdle
    /\ ThreadIdle

\* parsed = parse_email(m)
ParseEmail ==
    /\ parse_out = NotRun
    /\ parse_out' = parse_email(message, PARSING_MAP, HIGH_PRIORITY_KEYWORDS)
    /\ UNCHANGED << message, PARSING_MAP, HIGH_PRIORITY_KEYWORDS, bodyVars, pipeVars,
                    callVars, threadVars >>

NextParse == ParseEmail

SpecParse == InitParse /\ [][NextParse]_vars

----------------------------------------------------------------------------
(* Claims about parse_email *)

StandardKeys ==
    { "Message ID", "Thread ID", "Subject", "From", "Date", "Body (plain)", "Priority" }

\* parse_email has run and has returned a mapping.
Returned == parse_out # NotRun /\ parse_out.t = "dict"

\* C3: whatever the shape of the message, parse_email with well-formed
\* rules returns a mapping and raises no exception.
C3_ParseEmailAlwaysReturns ==
    ( /\ parse_out # NotRun
      /\ \A i \in 1..Len(PARSING_MAP) : PARSING_MAP[i] \in WellFormedRules )
    => parse_out.t = "dict"

\* rules without its i-th element
RemoveAt(rules, i) == SubSeq(rules, 1, i - 1) \o SubSeq(rules, i + 1, Len(rules))

\* C4: where parse_email returns without a malformed rule, it returns with
\* it too, the malformed rule's output_field is absent from the result, and
\* every other field is as it is without the rule.
C4_MalformedRuleDegradesAlone ==
    parse_out # NotRun =>
        \A i \in 1..Len(PARSING_MAP) :
            LET rule == PARSING_MAP[i]
                own == rule.v.output_field.v
                without == parse_email(message, RemoveAt(PARSING_MAP, i),
                                       HIGH_PRIORITY_KEYWORDS)
            IN (rule \in MalformedRules /\ without.t = "dict") =>
                   /\ parse_out.t = "dict"
                   /\ own \notin DOMAIN parse_out.v
                   /\ DOMAIN parse_out.v \ { own } = DOMAIN without.v \ { own }
                   /\ \A k \in DOMAIN without.v \ { own } : parse_out.v[k] = without.v[k]

\* The headers of the message under parse.
MessageHeaders == DictGet(DictGet(message, "payload", EmptyDict), "headers", EmptyList)

\* Rule i draws a non-empty value from the message that was parsed.
RuleExtracts(i) ==
    LET rule == PARSING_MAP[i]
        value == ExtractedValue(rule, DictGet(rule, "method", None), MessageHeaders,
                                parse_out.v["Body (plain)"])
    IN ~IsExc(value) /\ Truthy(value)

OutputFieldOf(i) == DictGet(PARSING_MAP[i], "output_field", None)

\* C8: a returned mapping holds the seven standard keys, holds a rule's
\* output_field exactly when some rule with that output_field extracted a
\* non-empty value, and holds nothing else.
C8_KeysAreStandardPlusExtracted ==
    Returned =>
        LET keys == DOMAIN parse_out.v
            fields == { OutputFieldOf(i).v :
                          i \in { j \in 1..Len(PARSING_MAP) : OutputFieldOf(j).t = "name" } }
        IN /\ StandardKeys \subseteq keys
           /\ \A f \in fields \cup (keys \ StandardKeys) :
                 f \in keys <=>
                     \E i \in 1..Len(PARSING_MAP) :
                         OutputFieldOf(i) = Name(f) /\ RuleExtracts(i)

\* A returned mapping with a rule-derived key, from a rule set in which
\* another rule extracted nothing.
C8_Witness ==
    /\ Returned
    /\ DOMAIN parse_out.v # StandardKeys
    /\ \E i \in 1..Len(PARSING_MAP) :
          OutputFieldOf(i).t = "name" /\ OutputFieldOf(i).v \notin DOMAIN parse_out.v

\* kw stands in text at position i with no word character on either side.
WholeWordAt(kw, text, i) ==
    LET last == i + Len(kw) - 1
    IN /\ last <= Len(text)
       /\ Lower(SubStr(text, i, last)) = Lower(kw)
       /\ i = 1 \/ ~IsWordChar(text[i - 1])
       /\ last = Len(text) \/ ~IsWordChar(text[last + 1])

\* Subject, normalized body and sender of the returned mapping, joined by
\* spaces, with every run of whitespace collapsed.
PriorityText ==
    Strip(CollapseSpaces(OrEmpty(parse_out.v["Subject"]) \o << " " >>
                             \o OrEmpty(parse_out.v["Body (plain)"]) \o << " " >>
                             \o OrEmpty(parse_out.v["From"]), 1))

\* C9: Priority is "High" exactly when a keyword of the comma-split,
\* trimmed, non-empty list occurs as a whole word, ignoring case, in the
\* collapsed text of subject, body and sender, and is "Normal" otherwise.
C9_PriorityHighIffWholeWord ==
    Returned =>
        LET kws == priority_keywords(HIGH_PRIORITY_KEYWORDS.v)
            occurs == \E k \in 1..Len(kws) :
                          \E i \in 1..Len(PriorityText) : WholeWordAt(kws[k], PriorityText, i)
        IN parse_out.v["Priority"] = (IF occurs THEN Name("High") ELSE Name("Normal"))

----------------------------------------------------------------------------
(* parse_email under rule lists whose rules share output fields *)

PatTotalThreeDigits ==
    << "T", "o", "t", "a", "l", "\\", "W", "+", "(", "\\", "d", "\\", "d", "\\", "d", ")" >>

\* Three rules for the column "Total Amount" that draw "20", "2" and nothing
\* from the body "Status: ok\nTotal - 20", a header rule for the same column
\* and a rule for a column of its own.
SharedFieldRules ==
    { KeyValueRule("Total Amount", KeyTotal, DelimDefault),
      RegexRule("Total Amount", Str(PatTotalDigit)),
      RegexRule("Total Amount", Str(PatTotalThreeDigits)),
      HeaderRule("Total Amount", Lower(HFrom)),
      KeyValueRule("Order Status", KeyStatus, << ":" >>) }

InitShared ==
    /\ message \in WellFormedMessages
    /\ PARSING_MAP \in UNION { SeqsOver(SharedFieldRules, n) : n \in 0..MaxRules }
    /\ HIGH_PRIORITY_KEYWORDS = Str(KwDefault)
    /\ parse_out = NotRun
    /\ BodyIdle
    /\ PipeIdle
    /\ CallIdle
    /\ ThreadIdle

SpecShared == InitShared /\ [][NextParse]_vars

\* What rule i draws from the message that was parsed.
RuleValue(i) ==
    ExtractedValue(PARSING_MAP[i], DictGet(PARSING_MAP[i], "method", None),
                   MessageHeaders, parse_out.v["Body (plain)"])

\* The rules that write field and draw a non-empty value.
RulesWriting(field) ==
    { i \in 1..Len(PARSING_MAP) : OutputFieldOf(i) = Name(field) /\ RuleExtracts(i) }

LastOf(S) == CHOOSE i \in S : \A j \in S : j <= i

\* C22: rules are applied in declared order and no diagnostic is raised when
\* two of them write one field: parse_email returns a mapping, and every
\* field that a rule wrote holds the value of the last rule in declared
\* order that drew a non-empty value for it, also when a later rule for the
\* same field drew nothing.
C22_LastNonEmptyRuleWins ==
    parse_out # NotRun =>
        /\ parse_out.t = "dict"
        /\ \A i \in 1..Len(PARSING_MAP) :
              RulesWriting(OutputFieldOf(i).v) # {} =>
                  parse_out.v[OutputFieldOf(i).v] =
                      RuleValue(LastOf(RulesWriting(OutputFieldOf(i).v)))

\* Two rules for one field drew different values, and the mapping holds the
\* later one.
C22_Witness ==
    /\ Returned
    /\ Len(PARSING_MAP) >= 2
    /\ OutputFieldOf(1) = OutputFieldOf(2)
    /\ RuleExtracts(1)
    /\ RuleExtracts(2)
    /\ RuleValue(1) # RuleValue(2)
    /\ parse_out.v[OutputFieldOf(2).v] = RuleValue(2)

----------------------------------------------------------------------------
(* main_email: get_final_header and build_row *)

standard_fields ==
    << "Date", "From", "Subject", "Body (plain)", "Priority", "Message ID",
       "Thread ID" >>

\* FINAL_HEADER: the standard fields, then each rule's output_field.
get_final_header(rules) ==
    standard_fields \o [i \in 1..Len(rules) |-> rules[i].v["output_field"].v]

\* str(value)[:n]
StrPrefix(value, n) ==
    CASE value.t = "str"  -> Str(SubSeq(value.v, 1, IF Len(value.v) < n THEN Len(value.v) ELSE n))
      [] value.t = "none" -> Str(SubSeq(<< "N", "o", "n", "e" >>, 1, IF n < 4 THEN n ELSE 4))
      [] OTHER            -> value

\* datetime.datetime.utcnow().isoformat(): the reading of the clock.
UtcNow == Name("utcnow")

\* One cell of build_row's row.
RowCell(field_name, value) ==
    IF field_name = "Body (plain)" THEN StrPrefix(value, 10000)
    ELSE IF field_name = "Date" THEN (IF Truthy(value) THEN value ELSE UtcNow)
    ELSE value

build_row(parsed, header) ==
    [i \in 1..Len(header) |-> RowCell(header[i], DictGet(parsed, header[i], EmptyStr))]

----------------------------------------------------------------------------
(* save_to_sheets *)

_MAX_ATTEMPTS == 5

\* The HTTP statuses an HttpError of the Google API client carries here.
HttpStatuses == { 403, 429, 500, 503 }
RetryStatuses == { 429, 500, 503 }

\* A cell of the sheet's first row: its text without the whitespace around
\* it, and whether there is whitespace around it.
Cell(text, padded) == [text |-> text, padded |-> padded]
\* cell.strip()
CellStrip(cell) == cell.text

\* [cell.strip() for cell in values[0] if cell.strip()]
existing_header(row) ==
    LET kept == SelectSeq(row, LAMBDA cell : CellStrip(cell) # "")
    IN  [i \in 1..Len(kept) |-> CellStrip(kept[i])]

\* header[:n]
Prefix(header, n) == SubSeq(header, 1, IF n < Len(header) THEN n ELSE Len(header))

\* existing_header == header[:len(existing_header)]
HeaderMatches(row, header) ==
    existing_header(row) = Prefix(header, Len(existing_header(row)))

\* The first row after values().update(..., body={"values": [header]}).
WrittenHeader(header) == [i \in 1..Len(header) |-> Cell(header[i], FALSE)]

\* The loop goes round again after a failure of any status.
RetriesAnyStatus(status, failures) == failures < _MAX_ATTEMPTS

\* except HttpError: whether the loop goes round again after this failure.
Retries(status, failures) == status \in RetryStatuses /\ failures < _MAX_ATTEMPTS

----------------------------------------------------------------------------
(* The mailbox, the sheet and the configurations run_pipeline starts from *)

\* config.MAX_RESULTS
MAX_RESULTS == 2

HXId == << "X", "-", "I", "d" >>

\* A header that carries the message's own id.
IdHeader(id) == Dict([name |-> Str(HXId), value |-> Name(id)])

InboxOrder ==
    FullMessage("m1", PlainPayload(
        List(<< Header(HSubject, SubjOrder), Header(HFrom, FromAnn), IdHeader("m1") >>),
        OrderBody))
InboxUrgent == MsgUrgent
\* A message resource parse_email raises on.
InboxBroken == FullMessage("m5", None)

Mailbox == { InboxOrder, InboxUrgent, InboxBroken }
MailboxIds == { m.v["id"] : m \in Mailbox }
MessageOf(id) == CHOOSE m \in Mailbox : m.v["id"] = id

\* The rule lists of the runs: none, the header and key-value rules of
\* config.py, and a rule that writes the column "id".
PipelineMaps ==
    { << >>,
      << KeyValueRule("Order Status", KeyStatus, << ":" >>),
         HeaderRule("Sender", Lower(HFrom)) >>,
      << HeaderRule("id", Lower(HXId)) >> }

\* First rows the sheet can hold when the run starts.
FirstRows(header) ==
    { << >>,
      WrittenHeader(header),
      << Cell("Date", TRUE), Cell("", FALSE), Cell("From", FALSE) >>,
      << Cell("", TRUE) >>,
      << Cell("Name", FALSE), Cell("Email", FALSE) >>,
      WrittenHeader(header) \o << Cell("Notes", FALSE) >> }

\* The lists fetch_unread_full_emails can return: full messages of distinct
\* unread ids, at most max_results of them.
FetchResults(ids, max_results) ==
    { [i \in 1..Len(q) |-> MessageOf(q[i])] :
        q \in { s \in UNION { SeqsOver(ids, n) : n \in 0..max_results } :
                  \A i, j \in 1..Len(s) : i # j => s[i] # s[j] } }

----------------------------------------------------------------------------
(* run_pipeline, one action per step of the function *)

FINAL_HEADER == get_final_header(PARSING_MAP)

configVars == << PARSING_MAP, HIGH_PRIORITY_KEYWORDS >>
idleVars == << payload, body_out, message, parse_out, called, args, ret, inbox, calls,
              frames, log, apiVars, fetchVars >>

InitPipeline ==
    /\ PARSING_MAP \in PipelineMaps
    /\ HIGH_PRIORITY_KEYWORDS = Str(KwDefault)
    /\ unread \in SUBSET MailboxIds
    /\ sheet_header \in FirstRows(get_final_header(PARSING_MAP))
    /\ sheet_rows = << >>
    /\ pc = "auth"
    /\ messages = << >>
    /\ rows = << >>
    /\ processed_ids = << >>
    /\ cursor = 0
    /\ attempt = 0
    /\ header_status = "none"
    /\ append_status = "none"
    /\ marked = << >>
    /\ message = None
    /\ parse_out = NotRun
    /\ BodyIdle
    /\ CallIdle
    /\ ThreadIdle
    /\ ApiIdle
    /\ FetchIdle

\* Step 1: get_credentials and build_services return.
AuthSucceeds ==
    /\ pc = "auth"
    /\ pc' = "header"
    /\ UNCHANGED << sheet_header, sheet_rows, messages, rows, processed_ids, cursor,
                    attempt, header_status, append_status, marked, unread,
                    configVars, idleVars >>

\* Step 1: they raise, and run_pipeline returns.
AuthFails ==
    /\ pc = "auth"
    /\ pc' = "done"
    /\ UNCHANGED << sheet_header, sheet_rows, messages, rows, processed_ids, cursor,
                    attempt, header_status, append_status, marked, unread,
                    configVars, idleVars >>

\* Step 2: ensure_header_row has returned or raised with this outcome; the
\* except clause of run_pipeline logs it and the function goes on to step 3.
HeaderDone(outcome) ==
    /\ header_status' = outcome
    /\ pc' = "fetch"
    /\ attempt' = 0

\* ensure_header_row: the first row is there and matches the header.
HeaderFound ==
    /\ pc = "header"
    /\ sheet_header # << >>
    /\ HeaderMatches(sheet_header, FINAL_HEADER)
    /\ HeaderDone("ok")
    /\ UNCHANGED << sheet_header, sheet_rows, messages, rows, processed_ids, cursor,
                    append_status, marked, unread, configVars, idleVars >>

\* ensure_header_row: the first row is there and differs; ValueError.
HeaderMismatch ==
    /\ pc = "header"
    /\ sheet_header # << >>
    /\ ~HeaderMatches(sheet_header, FINAL_HEADER)
    /\ HeaderDone("mismatch")
    /\ UNCHANGED << sheet_header, sheet_rows, messages, rows, processed_ids, cursor,
                    append_status, marked, unread, configVars, idleVars >>

\* ensure_header_row: the first row is empty and the header is written.
HeaderWritten ==
    /\ pc = "header"
    /\ sheet_header = << >>
    /\ sheet_header' = WrittenHeader(FINAL_HEADER)
    /\ HeaderDone("written")
    /\ UNCHANGED << sheet_rows, messages, rows, processed_ids, cursor,
                    append_status, marked, unread, configVars, idleVars >>

\* ensure_header_row: a request fails with HttpError; retried or re-raised.
HeaderHttpError ==
    /\ pc = "header"
    /\ \E status \in HttpStatuses :
          IF Retries(status, attempt + 1)
          THEN attempt' = attempt + 1 /\ UNCHANGED << pc, header_status >>
          ELSE HeaderDone("http_error")
    /\ UNCHANGED << sheet_header, sheet_rows, messages, rows, processed_ids, cursor,
                    append_status, marked, unread, configVars, idleVars >>

\* ensure_header_row: a request fails with another exception; re-raised.
HeaderOtherError ==
    /\ pc = "header"
    /\ HeaderDone("error")
    /\ UNCHANGED << sheet_header, sheet_rows, messages, rows, processed_ids, cursor,
                    append_status, marked, unread, configVars, idleVars >>

\* Step 3: fetch_unread_full_emails returns; an empty list ends the run.
FetchMessages ==
    /\ pc = "fetch"
    /\ \E result \in FetchResults(unread, MAX_RESULTS) :
          /\ messages' = result
          /\ pc' = IF result = << >> THEN "done" ELSE "parse"
    /\ rows' = << >>
    /\ processed_ids' = << >>
    /\ cursor' = 1
    /\ UNCHANGED << sheet_header, sheet_rows, attempt, header_status, append_status,
                    marked, unread, configVars, idleVars >>

\* rows after one turn of the loop of step 4.
RowsWith(parsed, header) ==
    IF IsExc(parsed) THEN rows ELSE Append(rows, build_row(parsed, header))

\* processed_ids after one turn of the loop of step 4.
IdsWith(parsed) ==
    IF IsExc(parsed) THEN processed_ids
    ELSE Append(processed_ids, DictGet(parsed, "id", None))

\* Step 4: one turn of `for m in messages`.
ParseMessage ==
    /\ pc = "parse"
    /\ cursor <= Len(messages)
    /\ rows' = RowsWith(parse_email(messages[cursor], PARSING_MAP, HIGH_PRIORITY_KEYWORDS),
                        FINAL_HEADER)
    /\ processed_ids' =
           IdsWith(parse_email(messages[cursor], PARSING_MAP, HIGH_PRIORITY_KEYWORDS))
    /\ cursor' = IF cursor = Len(messages) THEN 1 ELSE cursor + 1
    /\ pc' = IF cursor = Len(messages) THEN "append" ELSE "parse"
    /\ UNCHANGED << sheet_header, sheet_rows, messages, attempt, header_status,
                    append_status, marked, unread, configVars, idleVars >>

\* Step 5: no row was built; run_pipeline returns.
NoRows ==
    /\ pc = "append"
    /\ rows = << >>
    /\ append_status' = "skipped"
    /\ pc' = "done"
    /\ UNCHANGED << sheet_header, sheet_rows, messages, rows, processed_ids, cursor,
                    attempt, header_status, marked, unread, configVars, idleVars >>

\* Step 5: append_rows returns, the rows are in the sheet.
AppendSucceeds ==
    /\ pc = "append"
    /\ rows # << >>
    /\ sheet_rows' = sheet_rows \o rows
    /\ append_status' = "ok"
    /\ pc' = "mark"
    /\ attempt' = 0
    /\ UNCHANGED << sheet_header, messages, rows, processed_ids, cursor,
                    header_status, marked, unread, configVars, idleVars >>

\* Step 5, the except clause without its return: append_rows raised and
\* run_pipeline goes on to step 6.
AppendRaisedGoesOn(outcome) ==
    /\ append_status' = outcome
    /\ pc' = "mark"
    /\ attempt' = 0

\* Step 5, the except clause: append_rows raised, run_pipeline returns.
AppendRaised(outcome) ==
    /\ append_status' = outcome
    /\ pc' = "done"
    /\ attempt' = 0

\* append_rows: the request fails with HttpError; retried or re-raised.
AppendHttpError ==
    /\ pc = "append"
    /\ rows # << >>
    /\ \E status \in HttpStatuses :
          IF Retries(status, attempt + 1)
          THEN attempt' = attempt + 1 /\ UNCHANGED << pc, append_status >>
          ELSE AppendRaised("http_error")
    /\ UNCHANGED << sheet_header, sheet_rows, messages, rows, processed_ids, cursor,
                    header_status, marked, unread, configVars, idleVars >>

\* append_rows: the request fails with another exception; re-raised.
AppendOtherError ==
    /\ pc = "append"
    /\ rows # << >>
    /\ AppendRaised("error")
    /\ UNCHANGED << sheet_header, sheet_rows, messages, rows, processed_ids, cursor,
                    header_status, marked, unread, configVars, idleVars >>

\* Step 6: the loop `for mid in processed_ids` moves to its next turn.
NextId ==
    /\ cursor' = cursor + 1
    /\ attempt' = 0
    /\ pc' = IF cursor = Len(processed_ids) THEN "done" ELSE "mark"

\* marked once mark_as_read has been entered with mid.
Invoked(mid) == IF attempt = 0 THEN Append(marked, mid) ELSE marked

\* Step 6: `if mid` is false, mark_as_read is not called.
SkipId ==
    /\ pc = "mark"
    /\ cursor <= Len(processed_ids)
    /\ ~Truthy(processed_ids[cursor])
    /\ NextId
    /\ UNCHANGED << sheet_header, sheet_rows, messages, rows, processed_ids,
                    header_status, append_status, marked, unread, configVars, idleVars >>

\* mark_as_read: the modify request succeeds, the UNREAD label is gone.
MarkSucceeds ==
    /\ pc = "mark"
    /\ cursor <= Len(processed_ids)
    /\ Truthy(processed_ids[cursor])
    /\ processed_ids[cursor] \in MailboxIds
    /\ marked' = Invoked(processed_ids[cursor])
    /\ unread' = unread \ { processed_ids[cursor] }
    /\ NextId
    /\ UNCHANGED << sheet_header, sheet_rows, messages, rows, processed_ids,
                    header_status, append_status, configVars, idleVars >>

\* mark_as_read: the modify request fails with HttpError; retried until
\* max_attempts failures, then given up without raising.
MarkHttpError ==
    /\ pc = "mark"
    /\ cursor <= Len(processed_ids)
    /\ Truthy(processed_ids[cursor])
    /\ marked' = Invoked(processed_ids[cursor])
    /\ IF attempt + 1 >= _MAX_ATTEMPTS
       THEN NextId
       ELSE attempt' = attempt + 1 /\ UNCHANGED << pc, cursor >>
    /\ UNCHANGED << sheet_header, sheet_rows, messages, rows, processed_ids,
                    header_status, append_status, unread, configVars, idleVars >>

\* mark_as_read: the modify request fails with another exception; returns.
MarkOtherError ==
    /\ pc = "mark"
    /\ cursor <= Len(processed_ids)
    /\ Truthy(processed_ids[cursor])
    /\ marked' = Invoked(processed_ids[cursor])
    /\ NextId
    /\ UNCHANGED << sheet_header, sheet_rows, messages, rows, processed_ids,
                    header_status, append_status, unread, configVars, idleVars >>

NextPipeline ==
    \/ AuthSucceeds \/ AuthFails
    \/ HeaderFound \/ HeaderMismatch \/ HeaderWritten
    \/ HeaderHttpError \/ HeaderOtherError
    \/ FetchMessages
    \/ ParseMessage
    \/ NoRows \/ AppendSucceeds \/ AppendHttpError \/ AppendOtherError
    \/ SkipId \/ MarkSucceeds \/ MarkHttpError \/ MarkOtherError

SpecPipeline == InitPipeline /\ [][NextPipeline]_vars

----------------------------------------------------------------------------
(* Claims about run_pipeline *)

\* Position of the "Message ID" column in every header get_final_header builds.
MessageIdColumn == CHOOSE i \in 1..Len(standard_fields) : standard_fields[i] = "Message ID"

\* The Gmail ids of the messages whose rows were saved in this run.
SavedIds == { sheet_rows[i][MessageIdColumn] : i \in 1..Len(sheet_rows) }

InvokedIds == { marked[i] : i \in 1..Len(marked) }

\* C5: when run_pipeline has ended after append_rows succeeded, mark_as_read
\* has been invoked with the Gmail id of every message that was parsed and
\* saved in the run.
C5_SavedMessagesAreMarked ==
    (pc = "done" /\ append_status = "ok") => SavedIds \subseteq InvokedIds

\* C6: when ensure_header_row found a first row that does not match the
\* required header, the run appends no data row to the sheet.
C6_MismatchAppendsNothing ==
    header_status = "mismatch" => sheet_rows = << >>

\* C7: mark_as_read is invoked only after append_rows has returned in the
\* same run; when the append failed or no row was built, no message is marked
\* and no UNREAD label is removed.
C7_MarkOnlyAfterAppend ==
    /\ marked # << >> => append_status = "ok"
    /\ pc = "mark" => append_status = "ok"
    /\ append_status \in { "http_error", "error", "skipped" } =>
          /\ pc = "done"
          /\ marked = << >>

\* A run in which the rows were appended and mark_as_read was then invoked.
C7_Witness ==
    /\ pc = "done"
    /\ append_status = "ok"
    /\ marked # << >>
    /\ \E id \in MailboxIds : id \in InvokedIds /\ id \notin unread

----------------------------------------------------------------------------
(* extract_key_value and extract_regex_pattern called on their own *)

\* Texts.
TextDash == << "T", "o", "t", "a", "l", " ", "-", " ", "2", "0" >>
TextHash == << "T", "o", "t", "a", "l", "#", "2", "0" >>
TextTwoLines ==
    << "S", "t", "a", "t", "u", "s", ":", " ", "S", "h", "i", "p", "p",
       "e", "d", "\n", "T", "o", "t", "a", "l", ":", " ", "2", "0" >>
TextValueBelow ==
    << "T", "o", "t", "a", "l", ":", "\n", "S", "t", "a", "t", "u", "s",
       ":", " ", "o", "k" >>
TextTwice ==
    << "t", "o", "t", "a", "l", " ", ":", " ", "7", " ", "\n", "T", "O",
       "T", "A", "L", ":", "8" >>
TextNoLabel == << "n", "o", " ", "l", "a", "b", "e", "l" >>

ExtractTexts ==
    { Str(TextDash), Str(TextHash), Str(TextTwoLines), Str(TextValueBelow),
      Str(TextTwice), Str(TextNoLabel), EmptyStr, None }

\* Key lists: one key, two keys, none, and one that is blank.
KeyLists ==
    { << Str(KeyTotal) >>, << Str(KeyStatus), Str(KeyTotal) >>, << >>,
      << Str(<< " " >>) >> }

\* Delimiters: literal ones, the character class of config.py without and
\* with its optional whitespace, and whitespace tokens around a dash.
DelimClass ==
    << "\\", "s", "*", "[", ":", "\\", "-", "#", "]", "\\", "s", "*" >>
DelimBareClass == << "[", ":", "\\", "-", "#", "]" >>
DelimSpaced == << "\\", "s", "-", "\\", "s" >>

Delimiters ==
    { << ":" >>, << "-" >>, << "#" >>, DelimClass, DelimBareClass, DelimSpaced }

\* The rules handed to extract_key_value; the last kind has no delimiter.
KeyValueConfigs ==
    { Dict([key_patterns |-> List(keys), delimiter |-> Str(d)]) :
        keys \in KeyLists, d \in Delimiters }
    \cup { Dict([key_patterns |-> List(keys)]) : keys \in KeyLists }

\* Patterns: with a group, without one, not compilable, with a group that
\* takes no part in the match, and one whose group runs across lines.
PatNoGroup == << "T", "o", "t", "a", "l" >>
PatUnclosed == << "(" >>
PatOptionalGroup == << "(", "\\", "d", ")", "|", "T", "o", "t", "a", "l" >>
PatAcrossLines == << "S", "t", "a", "t", "u", "s", ":", "(", ".", "*", ")" >>

\* The rules handed to extract_regex_pattern; the last has no pattern.
RegexConfigs ==
    { Dict([pattern |-> Str(p)]) :
        p \in { PatTotalDigit, PatNoGroup, PatUnclosed, PatOptionalGroup,
                PatAcrossLines, << >> } }
    \cup { EmptyDict }

InitExtract ==
    /\ called = "none"
    /\ args \in (ExtractTexts \X KeyValueConfigs) \cup (ExtractTexts \X RegexConfigs)
    /\ ret = NotRun
    /\ BodyIdle
    /\ ParseIdle
    /\ PipeIdle
    /\ ThreadIdle

\* extracted_value = extract_key_value(body, instruction)
ExtractKeyValue ==
    /\ called = "none"
    /\ args[2] \in KeyValueConfigs
    /\ called' = "extract_key_value"
    /\ ret' = extract_key_value(args[1], args[2])
    /\ UNCHANGED << args, bodyVars, parseVars, pipeVars, threadVars >>

\* extracted_value = extract_regex_pattern(body, instruction)
ExtractRegexPattern ==
    /\ called = "none"
    /\ args[2] \in RegexConfigs
    /\ called' = "extract_regex_pattern"
    /\ ret' = extract_regex_pattern(args[1], args[2])
    /\ UNCHANGED << args, bodyVars, parseVars, pipeVars, threadVars >>

NextExtract == ExtractKeyValue \/ ExtractRegexPattern

SpecExtract == InitExtract /\ [][NextExtract]_vars

----------------------------------------------------------------------------
(* Claims about extract_key_value and extract_regex_pattern *)

\* The call of extract_key_value in this state came to the search: text
\* and key_patterns were not empty and some key was not blank.
KeyValueSearched ==
    /\ called = "extract_key_value"
    /\ Truthy(args[1])
    /\ EscapedPatterns(args[2].v["key_patterns"].v, 1).v # << >>

\* config.get("delimiter", ":") of the call.
RawDelimiter == DictGet(args[2], "delimiter", Str(<< ":" >>)).v

\* The fragment the delimiter stands for as the rule is stated: itself when
\* it begins with the whitespace token \s or holds a metacharacter, else
\* its escaped text.
StatedDelimiter(raw) ==
    IF StartsWithAt(raw, 1, << "\\", "s" >>)
       \/ \E i \in 1..Len(raw) : raw[i] \in DelimiterMetaSet
    THEN raw
    ELSE re_escape(raw)

\* C13: the delimiter is used verbatim when it begins with \s or holds a
\* metacharacter and is escaped otherwise, so the result is that of the
\* search with the stated fragment; with \s*[:\-#]\s* the key Total finds
\* 20 in 'Total - 20' and in 'Total#20'.
C13_DelimiterVerbatimOrEscaped ==
    KeyValueSearched =>
        /\ ret = KeyValueSearch(args[1],
                     re_compile(FullPattern(
                         EscapedPatterns(args[2].v["key_patterns"].v, 1).v,
                         StatedDelimiter(RawDelimiter))))
        /\ ( /\ RawDelimiter = DelimClass
             /\ args[2].v["key_patterns"].v = << Str(KeyTotal) >>
             /\ args[1] \in { Str(TextDash), Str(TextHash) } )
           => ret = Str(<< "2", "0" >>)

\* The least j >= i that is past the end of s or where P(s[j]) fails.
RunEnd(s, i, P(_)) ==
    CHOOSE j \in i..(Len(s) + 1) :
        /\ j > Len(s) \/ ~P(s[j])
        /\ \A k \in i..(j - 1) : P(s[k])

NotNewline(c) == c # "\n"

\* The keys of the call, stripped, the blank ones left out.
StatedKeys ==
    LET items == args[2].v["key_patterns"].v
        kept == SelectSeq(items, LAMBDA k : Strip(k.v) # << >>)
    IN  [i \in 1..Len(kept) |-> Strip(kept[i].v)]

\* Where the value starts if key number n stands at position i of text,
\* followed by optional whitespace and the literal delimiter; else 0.
ValueStart(text, i, n, delimiter) ==
    IF StartsWithAtCI(text, i, StatedKeys[n])
       /\ StartsWithAt(text, RunEnd(text, i + Len(StatedKeys[n]), IsSpace), delimiter)
    THEN RunEnd(text, i + Len(StatedKeys[n]), IsSpace) + Len(delimiter)
    ELSE 0

LabelAt(text, i, delimiter) ==
    \E n \in 1..Len(StatedKeys) : ValueStart(text, i, n, delimiter) > 0

\* The value as the rule states it for a literal delimiter: at the leftmost
\* labelled position, the text after the delimiter up to the next newline
\* or the end, trimmed; the empty string without such a position.
StatedValue(text, delimiter) ==
    IF \A i \in 1..Len(text) : ~LabelAt(text, i, delimiter) THEN << >>
    ELSE LET i == CHOOSE p \in 1..Len(text) :
                      LabelAt(text, p, delimiter)
                      /\ \A q \in 1..(p - 1) : ~LabelAt(text, q, delimiter)
             n == CHOOSE m \in 1..Len(StatedKeys) :
                      ValueStart(text, i, m, delimiter) > 0
                      /\ \A l \in 1..(m - 1) : ValueStart(text, i, l, delimiter) = 0
             from == ValueStart(text, i, n, delimiter)
         IN  Strip(SubStr(text, from, RunEnd(text, from, NotNewline) - 1))

LiteralDelimiters == { << ":" >>, << "-" >>, << "#" >> }

\* C14: extract_key_value returns the value of the leftmost labelled
\* position, from the delimiter to the end of that line and trimmed; the
\* result holds no newline, and it is empty without a labelled position
\* and when text or key_patterns is empty.
C14_LeftmostLabelledValue ==
    called = "extract_key_value" =>
        /\ IsStr(ret)
        /\ \A i \in 1..Len(ret.v) : ret.v[i] # "\n"
        /\ (~Truthy(args[1]) \/ ~Truthy(args[2].v["key_patterns"])) => ret = EmptyStr
        /\ (Truthy(args[1]) /\ RawDelimiter \in LiteralDelimiters) =>
              ret = Str(StatedValue(args[1].v, RawDelimiter))

\* config.get("pattern", "") of the call.
RawPattern == DictGet(args[2], "pattern", EmptyStr)

\* C15: extract_regex_pattern returns a str for every text and pattern: the
\* empty string for an empty text or pattern, for a pattern without a group
\* and for one that does not compile, and the trimmed first group of a match.
C15_RegexNeverRaises ==
    called = "extract_regex_pattern" =>
        /\ IsStr(ret)
        /\ (~Truthy(args[1]) \/ ~Truthy(RawPattern)) => ret = EmptyStr
        /\ RawPattern \in { Str(PatNoGroup), Str(PatUnclosed) } => ret = EmptyStr
        /\ (RawPattern = Str(PatTotalDigit) /\ args[1] = Str(TextDash)) =>
              ret = Str(<< "2" >>)

----------------------------------------------------------------------------
(* safe_b64_decode called on its own *)

\* The longest data string.
MaxDataLen == 4

\* Characters of the data: base64url digits, the pad and one character
\* that is no digit.  "aA" encodes "h", "aGk" "hi", "aGkk" "hi$" and "_w"
\* the byte 255, which is not UTF-8.
DataChars == { "a", "A", "G", "k", "_", "w", "=", "!" }

DataInputs(len) ==
    { Str(s) : s \in UNION { SeqsOver(DataChars, n) : n \in 0..len } }
    \cup { None, PyInt(5) }

InitDecode ==
    /\ called = "none"
    /\ args \in { << d >> : d \in DataInputs(MaxDataLen) }
    /\ ret = NotRun
    /\ BodyIdle
    /\ ParseIdle
    /\ PipeIdle
    /\ ThreadIdle

\* safe_b64_decode(data)
SafeB64Decode ==
    /\ called = "none"
    /\ called' = "safe_b64_decode"
    /\ ret' = safe_b64_decode(args[1])
    /\ UNCHANGED << args, bodyVars, parseVars, pipeVars, threadVars >>

NextDecode == SafeB64Decode

SpecDecode == InitDecode /\ [][NextDecode]_vars

----------------------------------------------------------------------------
(* Claims about safe_b64_decode *)

\* The base64url digit of the value v.
B64Digit(v) ==
    IF B64Alphabet[v + 1] = "+" THEN "-"
    ELSE IF B64Alphabet[v + 1] = "/" THEN "_"
    ELSE B64Alphabet[v + 1]

\* The base64url encoding of a text of one to three ASCII characters,
\* padded to four characters.
B64Encode(t) ==
    LET b(i) == IF i <= Len(t) THEN Ord(t[i]) ELSE 0
        quad == << B64Digit(b(1) \div 4),
                   B64Digit((b(1) % 4) * 16 + (b(2) \div 16)),
                   B64Digit((b(2) % 16) * 4 + (b(3) \div 64)),
                   B64Digit(b(3) % 64) >>
    IN  SubSeq(quad, 1, Len(t) + 1) \o Pad(3 - Len(t))

EncodedTexts == { << "h" >>, << "h", "i" >>, << "h", "i", "$" >> }

\* C16: safe_b64_decode never raises; it returns '' for empty or absent
\* data and for data that is not decodable, and the text that the data,
\* padded with '=' to a multiple of four characters, encodes, with a
\* replacement character for bytes that are not UTF-8.
C16_DecodeNeverRaises ==
    called = "safe_b64_decode" =>
        /\ IsStr(ret)
        /\ ~Truthy(args[1]) => ret = EmptyStr
        /\ args[1] \in { Str(<< "a" >>), Str(<< "a", "G", "k", "a", "A" >>),
                         Str(<< "a", "G", "!", "k" >>), PyInt(5) } => ret = EmptyStr
        /\ \A t \in EncodedTexts :
              ( IsStr(args[1])
                /\ args[1].v \in { B64Encode(t), SubSeq(B64Encode(t), 1, Len(t) + 1) } )
              => ret = Str(t)
        /\ ( IsStr(args[1])
             /\ args[1].v \in { << "_", "w" >>, << "_", "w", "=", "=" >> } )
           => ret = Str(<< ReplacementChar >>)

\* Data without its padding was decoded to the text it encodes.
C16_Witness ==
    /\ called = "safe_b64_decode"
    /\ args = << Str(<< "a", "G", "k" >>) >>
    /\ ret = Str(<< "h", "i" >>)

----------------------------------------------------------------------------
(* Calls of strip_html on documents built from a few kinds of element *)

MaxHtmlNodes == 3

\* Text between tags: two letters, a blank and a line break tag.
HtmlLeaves == { << "x" >>, << "z" >>, << " " >>, << "<", "b", "r", ">" >> }

TagScript == << "s", "c", "r", "i", "p", "t" >>
TagScriptUpper == << "S", "C", "R", "I", "P", "T" >>
TagScriptMixed == << "S", "c", "r", "i", "p", "t" >>
TagStyle == << "s", "t", "y", "l", "e" >>

\* The opening and closing names of the elements a document is built from.
HtmlElements ==
    { << TagScript, TagScript >>, << TagScriptUpper, TagScriptMixed >>,
      << TagStyle, TagStyle >>, << << "p" >>, << "p" >> >> }

Element(names, inner) ==
    << "<" >> \o names[1] \o << ">" >> \o inner \o << "<", "/" >> \o names[2] \o << ">" >>

\* The documents of exactly n nodes, given those of fewer nodes in docs (a
\* function on 0..(n - 1)): a leaf or an element, then a shorter document.
DocsOfSize(docs, n) ==
    UNION { { first \o rest : first \in HtmlLeaves, rest \in docs[n - 1] },
            UNION { { Element(e, inner) \o rest :
                        e \in HtmlElements, inner \in docs[k - 1], rest \in docs[n - k] } :
                    k \in 1..n } }

DocsUpTo(docs, n) == [k \in 0..n |-> IF k < n THEN docs[k] ELSE DocsOfSize(docs, n)]

\* Every document of up to n nodes, by number of nodes: a sequence of leaves
\* and elements, each element holding a document of its own.
RECURSIVE HtmlDocs(_)
HtmlDocs(n) ==
    IF n = 0 THEN [k \in { 0 } |-> { << >> }] ELSE DocsUpTo(HtmlDocs(n - 1), n)

HtmlExample ==
    << "<", "p", ">", "H", "i", "<", "b", "r", ">", "t", "h", "e", "r", "e",
       "<", "/", "p", ">" >>

HtmlInputs(nodes) ==
    { Str(s) : s \in UNION { HtmlDocs(nodes)[n] : n \in 0..nodes } \cup { HtmlExample } }
    \cup { None }

InitStrip ==
    /\ called = "none"
    /\ args \in { << html >> : html \in HtmlInputs(MaxHtmlNodes) }
    /\ ret = NotRun
    /\ BodyIdle
    /\ ParseIdle
    /\ PipeIdle
    /\ ThreadIdle

\* strip_html(html)
StripHtml ==
    /\ called = "none"
    /\ called' = "strip_html"
    /\ ret' = strip_html(args[1])
    /\ UNCHANGED << args, bodyVars, parseVars, pipeVars, threadVars >>

NextStrip == StripHtml

SpecStrip == InitStrip /\ [][NextStrip]_vars

----------------------------------------------------------------------------
(* Claims about strip_html *)

\* A script or style element opens (closes) at position j of s.
OpensAt(s, j) ==
    StartsWithAtCI(s, j, << "<" >> \o TagScript) \/ StartsWithAtCI(s, j, << "<" >> \o TagStyle)
ClosesAt(s, j) ==
    \/ StartsWithAtCI(s, j, << "<", "/" >> \o TagScript)
    \/ StartsWithAtCI(s, j, << "<", "/" >> \o TagStyle)

\* How many script and style elements enclose position i of a document.
ScriptDepth(s, i) ==
    Cardinality({ j \in 1..i : OpensAt(s, j) }) - Cardinality({ j \in 1..i : ClosesAt(s, j) })

CountOf(s, c) == Cardinality({ i \in 1..Len(s) : s[i] = c })
CountOutside(s, c) == Cardinality({ i \in 1..Len(s) : s[i] = c /\ ScriptDepth(s, i) = 0 })

StripCalled == called = "strip_html" /\ IsStr(args[1])

\* C17: the output of strip_html holds no text from inside a script or style
\* element, whatever the case of the tag names and however the elements are
\* nested: each letter occurs in the output at most as often as it occurs
\* outside every script and style element of the input.
C17_NoScriptOrStyleText ==
    StripCalled =>
        /\ IsStr(ret)
        /\ \A c \in { "x", "z" } : CountOf(ret.v, c) <= CountOutside(args[1].v, c)

HiThere == << "H", "i", " ", "t", "h", "e", "r", "e" >>

\* The index just past the <br> and </p> tags that start at position i.
RECURSIVE BreakRunEnd(_, _)
BreakRunEnd(s, i) ==
    IF StartsWithAtCI(s, i, << "<", "b", "r", ">" >>) \/ StartsWithAtCI(s, i, << "<", "/", "p", ">" >>)
    THEN BreakRunEnd(s, i + 4)
    ELSE i

\* The three characters a, b, c stand side by side somewhere in s.
HasTriple(s, a, b, c) ==
    \E k \in 1..(Len(s) - 2) : s[k] = a /\ s[k + 1] = b /\ s[k + 2] = c

LetterSet == UpperSet \cup LowerSet

\* Position i ends a piece of visible text and <br> and </p> tags, nothing
\* else, stand between it and the next piece, which starts at position j.
Boundary(s, i, j) ==
    /\ s[i] \in LetterSet
    /\ j > i + 1
    /\ j <= Len(s)
    /\ s[j] \in LetterSet
    /\ ScriptDepth(s, i) = 0

\* C18: the output of strip_html neither starts nor ends with whitespace and
\* has no two whitespace characters side by side; text on the two sides of
\* <br> and </p> tags comes out with exactly one space between; the example
\* '<p>Hi<br>there</p>' gives 'Hi there'; empty and absent input give ''.
C18_WhitespaceNormalised ==
    called = "strip_html" =>
        /\ IsStr(ret)
        /\ Len(ret.v) > 0 => ~IsSpace(ret.v[1]) /\ ~IsSpace(ret.v[Len(ret.v)])
        /\ \A k \in 1..(Len(ret.v) - 1) : ~(IsSpace(ret.v[k]) /\ IsSpace(ret.v[k + 1]))
        /\ IsStr(args[1]) =>
              \A i \in 1..Len(args[1].v) :
                  Boundary(args[1].v, i, BreakRunEnd(args[1].v, i + 1)) =>
                      HasTriple(ret.v, args[1].v[i], " ",
                                args[1].v[BreakRunEnd(args[1].v, i + 1)])
        /\ args[1] = Str(HtmlExample) => ret = Str(HiThere)
        /\ args[1] \in { EmptyStr, None } => ret = EmptyStr

C18_Witness ==
    /\ called = "strip_html"
    /\ args[1] = Str(HtmlExample)
    /\ ret = Str(HiThere)

----------------------------------------------------------------------------
(* parse_email statement by statement, for several invocations *)

\* How many invocations of parse_email there are.
NumCalls == 2
Calls == 1..NumCalls

ThreadMessages == Mailbox \cup { MsgTagged }
ThreadMaps ==
    PipelineMaps
    \cup { << KeyValueRule("Order Status", KeyStatus, << ":" >>),
              RegexRule("Notes", PyInt(5)) >> }
ThreadKeywords == { Str(KwDefault), EmptyStr }

NoFrame == [t |-> "none"]

\* A dict after d.pop(key, default): the key is gone.
DictAfterPop(d, key) ==
    IF d.t = "dict" THEN Dict([k \in DOMAIN d.v \ { key } |-> d.v[k]]) ELSE d

\* A dict after d.get(key, default): as it was (line 150).
DictAfterGet(d, key) == d

\* Every invocation writes into the frame of the first one.
FirstFrame(c) == 1

\* The frame that holds the local variables of invocation c: one of its own
\* for every call of the function (line 136).
FrameOf(c) == c

\* Lines 154-167, with the headers read: the locals, or the exception raised.
FrameFields(full_message, headers, subject, from_raw, date, body) ==
    IF IsExc(subject) THEN subject
    ELSE IF IsExc(from_raw) THEN from_raw
    ELSE IF IsExc(date) THEN date
    ELSE IF IsExc(body) THEN body
    ELSE [t |-> "frame", headers |-> headers, subject |-> subject,
          from_raw |-> from_raw, body |-> body, k |-> 1,
          parsed |-> StandardFields(full_message, subject, from_raw, date, body)]

FrameHeaders(full_message, msg_payload, headers) ==
    IF IsExc(headers) THEN headers
    ELSE FrameFields(full_message, headers,
                     get_header(headers, Str(<< "S", "u", "b", "j", "e", "c", "t" >>)),
                     get_header(headers, Str(<< "F", "r", "o", "m" >>)),
                     get_header(headers, Str(<< "D", "a", "t", "e" >>)),
                     extract_text_body(msg_payload))

FramePayload(full_message, msg_payload) ==
    IF IsExc(msg_payload) THEN msg_payload
    ELSE FrameHeaders(full_message, msg_payload,
                      DictGet(msg_payload, "headers", EmptyList))

\* Lines 150-167: the local variables up to the dict literal of `parsed`.
NewFrame(full_message) ==
    FramePayload(full_message, DictGet(full_message, "payload", EmptyDict))

Raise(c, exception) == calls' = [calls EXCEPT ![c].pc = "done", ![c].ret = exception]

EnterWith(c, entered) ==
    IF IsExc(entered) THEN Raise(c, entered) /\ UNCHANGED frames
    ELSE /\ frames' = [frames EXCEPT ![FrameOf(c)] = entered]
         /\ calls' = [calls EXCEPT ![c].pc = "rules"]

\* Lines 150-167 of invocation c.
Enter(c) ==
    /\ calls[c].pc = "start"
    /\ EnterWith(c, NewFrame(inbox[calls[c].arg]))
    /\ inbox' = [inbox EXCEPT ![calls[c].arg] = DictAfterGet(@, "payload")]
    /\ UNCHANGED << log, PARSING_MAP, HIGH_PRIORITY_KEYWORDS, message, parse_out,
                    bodyVars, pipeVars, callVars >>

\* A rule after a turn that took its parameters out of it with dict.pop.
RuleAfterPops(instruction) ==
    DictAfterPop(DictAfterPop(instruction, "key_patterns"), "header_name")

\* A rule after the turn of the loop that applied it: parse_email (lines
\* 171-185), extract_key_value (parsing_tools.py lines 24-44) and
\* extract_regex_pattern (line 79) read it with dict.get and build new lists
\* from its parameters, so it is as it was.
RuleAfterTurn(instruction) == instruction

\* Lines 171-189 for one rule: the mapping after it, or the exception.
LoopBody(parsed, output_field, extracted_value) ==
    IF IsExc(output_field) THEN output_field
    ELSE IF IsExc(extracted_value) THEN extracted_value
    ELSE StoreField(parsed, output_field, extracted_value)

InstructionWith(c, stored) ==
    IF IsExc(stored) THEN Raise(c, stored) /\ UNCHANGED frames
    ELSE /\ frames' = [frames EXCEPT ![FrameOf(c)].parsed = stored,
                                     ![FrameOf(c)].k = @ + 1]
         /\ UNCHANGED calls

\* One turn of the loop over config.PARSING_MAP (lines 170-189) in
\* invocation c.
Instruction(c) ==
    /\ calls[c].pc = "rules"
    /\ frames[FrameOf(c)].k <= Len(PARSING_MAP)
    /\ InstructionWith(c,
           LoopBody(frames[FrameOf(c)].parsed,
                    DictGet(PARSING_MAP[frames[FrameOf(c)].k], "output_field", None),
                    ExtractedValue(PARSING_MAP[frames[FrameOf(c)].k],
                                   DictGet(PARSING_MAP[frames[FrameOf(c)].k], "method", None),
                                   frames[FrameOf(c)].headers, frames[FrameOf(c)].body)))
    /\ PARSING_MAP' = [PARSING_MAP EXCEPT ![frames[FrameOf(c)].k] = RuleAfterTurn(@)]
    /\ UNCHANGED << inbox, log, HIGH_PRIORITY_KEYWORDS, message, parse_out,
                    bodyVars, pipeVars, callVars >>

FlagWith(c, result) ==
    /\ calls' = [calls EXCEPT ![c].pc = "done", ![c].ret = result]
    /\ log' = IF IsExc(result) THEN log ELSE Append(log, result.v["Message ID"])

\* Lines 191-207 of invocation c: the priority flag, the log record and the
\* return.
Flag(c) ==
    /\ calls[c].pc = "rules"
    /\ frames[FrameOf(c)].k > Len(PARSING_MAP)
    /\ FlagWith(c, ParseMapped(HIGH_PRIORITY_KEYWORDS, frames[FrameOf(c)].subject,
                               frames[FrameOf(c)].body, frames[FrameOf(c)].from_raw,
                               frames[FrameOf(c)].parsed))
    /\ UNCHANGED << inbox, frames, PARSING_MAP, HIGH_PRIORITY_KEYWORDS, message,
                    parse_out, bodyVars, pipeVars, callVars >>

\* The state before the first statement of any invocation; invocation c is
\* handed the message object argument[c].
InitCalls(argument) ==
    /\ calls = [c \in Calls |-> [pc |-> "start", arg |-> argument[c], ret |-> NotRun]]
    /\ frames = [c \in Calls |-> NoFrame]
    /\ log = << >>
    /\ PARSING_MAP \in ThreadMaps
    /\ HIGH_PRIORITY_KEYWORDS \in ThreadKeywords
    /\ message = None
    /\ parse_out = NotRun
    /\ BodyIdle
    /\ PipeIdle
    /\ CallIdle

----------------------------------------------------------------------------
(* parse_email called several times in a row on one message object *)

InitTwice ==
    /\ inbox \in { << m >> : m \in ThreadMessages }
    /\ InitCalls([c \in Calls |-> 1])

\* A call starts when the call before it has returned or raised.
InTurn(c) == \A d \in 1..(c - 1) : calls[d].pc = "done"

EnterInTurn == \E c \in Calls : InTurn(c) /\ Enter(c)
InstructionInTurn == \E c \in Calls : InTurn(c) /\ Instruction(c)
FlagInTurn == \E c \in Calls : InTurn(c) /\ Flag(c)

NextTwice == EnterInTurn \/ InstructionInTurn \/ FlagInTurn

SpecTwice == InitTwice /\ [][NextTwice]_vars

\* C19: two calls of parse_email on the same message object, with the same
\* rules and keywords, return equal mappings (or raise the same exception),
\* and the message object is after the calls what it was before them.
C19_SecondCallReturnsTheSame ==
    \A c, d \in Calls :
        (calls[c].pc = "done" /\ calls[d].pc = "done") =>
            /\ calls[c].ret = calls[d].ret
            /\ calls[c].ret = parse_email(inbox[1], PARSING_MAP, HIGH_PRIORITY_KEYWORDS)

C19_Witness ==
    /\ \A c \in Calls : calls[c].pc = "done" /\ calls[c].ret.t = "dict"
    /\ Len(PARSING_MAP) > 0
    /\ "Order Status" \in DOMAIN calls[NumCalls].ret.v

\* C21: no statement of parse_email, extract_key_value or
\* extract_regex_pattern changes config.PARSING_MAP: every step of every call
\* leaves the same rules, in the same order, with the same parameters.
C21_RulesStayAsLoaded == [][PARSING_MAP' = PARSING_MAP]_vars

\* Every call has returned a mapping, and a key-value rule and a header
\* rule have each extracted a value on the way.
C21_Witness ==
    /\ \A c \in Calls : calls[c].pc = "done" /\ calls[c].ret.t = "dict"
    /\ Len(log) = NumCalls
    /\ { "Order Status", "Sender" } \subseteq DOMAIN calls[1].ret.v

----------------------------------------------------------------------------
(* parse_email invoked concurrently, each invocation on a message of its own *)

InitThreads ==
    /\ inbox \in [Calls -> ThreadMessages]
    /\ InitCalls([c \in Calls |-> c])

EnterAny == \E c \in Calls : Enter(c)
InstructionAny == \E c \in Calls : Instruction(c)
FlagAny == \E c \in Calls : Flag(c)

NextThreads == EnterAny \/ InstructionAny \/ FlagAny

SpecThreads == InitThreads /\ [][NextThreads]_vars

\* The locals of a lone invocation on full_message that has done k - 1 turns
\* of its loop.
AloneFrame(entered, k) ==
    IF IsExc(entered) THEN entered
    ELSE [entered EXCEPT !.k = k,
                         !.parsed = ApplyRules(SubSeq(PARSING_MAP, 1, k - 1), 1,
                                               entered.parsed, entered.headers,
                                               entered.body)]

\* C20: however the statements of concurrent invocations of parse_email
\* interleave, each invocation works on locals that only its own statements
\* wrote, and returns the mapping (or raises the exception) that parse_email
\* gives for its message when it runs alone.
C20_InterleavingKeepsResults ==
    \A c \in Calls :
        /\ calls[c].pc = "rules" =>
              /\ frames[c].t = "frame"
              /\ frames[c] = AloneFrame(NewFrame(inbox[c]), frames[c].k)
        /\ calls[c].pc = "done" =>
              calls[c].ret = parse_email(inbox[c], PARSING_MAP, HIGH_PRIORITY_KEYWORDS)

\* Two invocations on messages that differ are inside their rule loops at
\* the same time, one of them a turn ahead of the other.
C20_Witness ==
    /\ calls[1].pc = "rules"
    /\ calls[2].pc = "rules"
    /\ inbox[1] # inbox[2]
    /\ frames[1].k = 2
    /\ frames[2].k = 1
    /\ frames[1].parsed # frames[2].parsed
    /\ "Order Status" \in DOMAIN frames[1].parsed.v


----------------------------------------------------------------------------
(* ensure_header_row and append_rows called on their own *)

_INITIAL_BACKOFF == 1

\* delay = _INITIAL_BACKOFF * (2 ** attempt)
Delay(failures) == _INITIAL_BACKOFF * 2^failures

\* An executed request: the API method and the HTTP status of the response
\* (0 when execute() raised an exception that is not an HttpError).
Request(api, status) == [api |-> api, status |-> status]

SheetHeader == get_final_header(<< >>)

\* First rows of the sheet: those of the pipeline runs, the required header
\* with whitespace around every cell, and its first two columns alone.
SheetFirstRows ==
    FirstRows(SheetHeader)
    \cup { [i \in 1..Len(SheetHeader) |-> Cell(SheetHeader[i], TRUE)],
           WrittenHeader(Prefix(SheetHeader, 2)) }

SheetRow == << Str(SubjOrder), Str(FromAnn) >>
RowLists == { << >>, << SheetRow >>, << SheetRow, SheetRow >> }

InitSheets ==
    /\ \/ /\ called = "ensure_header_row"
          /\ args = << SheetHeader >>
          /\ sheet_header \in SheetFirstRows
       \/ /\ called = "append_rows"
          /\ args \in { << r >> : r \in RowLists }
          /\ sheet_header = WrittenHeader(SheetHeader)
    /\ ret = NotRun
    /\ pc = "call"
    /\ attempt = 0
    /\ sheet_rows = << >>
    /\ requests = << >>
    /\ slept = << >>
    /\ messages = << >>
    /\ rows = << >>
    /\ processed_ids = << >>
    /\ cursor = 0
    /\ header_status = "none"
    /\ append_status = "none"
    /\ marked = << >>
    /\ unread = {}
    /\ FetchIdle
    /\ BodyIdle
    /\ ParseIdle
    /\ ThreadIdle

sheetFrame == << messages, rows, processed_ids, cursor, header_status, append_status,
                 marked, unread, called, args, fetchVars, bodyVars, parseVars,
                 threadVars >>

\* The function returns value, or raises it.
Leave(value) == pc' = "done" /\ ret' = value

\* except HttpError (lines 74-87 and 140-153): count the failure, then sleep
\* and go round again, or re-raise.
OnHttpError(status) ==
    /\ attempt' = attempt + 1
    /\ IF Retries(status, attempt + 1)
       THEN slept' = Append(slept, Delay(attempt + 1)) /\ UNCHANGED << pc, ret >>
       ELSE Leave(Exc("HttpError")) /\ UNCHANGED slept

InEnsure == called = "ensure_header_row" /\ pc = "call"

\* Lines 38-53: the first row is there and matches; return.
EnsureReturns ==
    /\ InEnsure
    /\ sheet_header # << >>
    /\ HeaderMatches(sheet_header, args[1])
    /\ requests' = Append(requests, Request("get", 200))
    /\ Leave(None)
    /\ UNCHANGED << sheet_header, sheet_rows, attempt, slept, sheetFrame >>

\* Lines 38-61, 88-90: the first row is there and differs; ValueError.
EnsureRaisesValueError ==
    /\ InEnsure
    /\ sheet_header # << >>
    /\ ~HeaderMatches(sheet_header, args[1])
    /\ requests' = Append(requests, Request("get", 200))
    /\ Leave(Exc("ValueError"))
    /\ UNCHANGED << sheet_header, sheet_rows, attempt, slept, sheetFrame >>

\* Lines 38-46, 63-72: the first row is empty; the header is written.
EnsureWritesHeader ==
    /\ InEnsure
    /\ sheet_header = << >>
    /\ requests' = requests \o << Request("get", 200), Request("update", 200) >>
    /\ sheet_header' = WrittenHeader(args[1])
    /\ Leave(None)
    /\ UNCHANGED << sheet_rows, attempt, slept, sheetFrame >>

\* Lines 38-42, 74-87: values().get raises HttpError.
EnsureGetHttpError ==
    /\ InEnsure
    /\ \E status \in HttpStatuses :
          /\ requests' = Append(requests, Request("get", status))
          /\ OnHttpError(status)
    /\ UNCHANGED << sheet_header, sheet_rows, sheetFrame >>

\* Lines 63-70, 74-87: values().update raises HttpError.
EnsureUpdateHttpError ==
    /\ InEnsure
    /\ sheet_header = << >>
    /\ \E status \in HttpStatuses :
          /\ requests' = requests \o << Request("get", 200), Request("update", status) >>
          /\ OnHttpError(status)
    /\ UNCHANGED << sheet_header, sheet_rows, sheetFrame >>

\* Lines 91-93: a request raises another exception; re-raised.
EnsureOtherError ==
    /\ InEnsure
    /\ \/ requests' = Append(requests, Request("get", 0))
       \/ /\ sheet_header = << >>
          /\ requests' = requests \o << Request("get", 200), Request("update", 0) >>
    /\ Leave(Exc("Exception"))
    /\ UNCHANGED << sheet_header, sheet_rows, attempt, slept, sheetFrame >>

InAppend == called = "append_rows" /\ pc = "call"

\* Lines 115-117: no rows; return None without a request.
RowsSkipped ==
    /\ InAppend
    /\ args[1] = << >>
    /\ Leave(None)
    /\ UNCHANGED << sheet_header, sheet_rows, attempt, requests, slept, sheetFrame >>

\* Lines 127-138: values().append succeeds.
RowsAppended ==
    /\ InAppend
    /\ args[1] # << >>
    /\ requests' = Append(requests, Request("append", 200))
    /\ sheet_rows' = sheet_rows \o args[1]
    /\ Leave(EmptyDict)
    /\ UNCHANGED << sheet_header, attempt, slept, sheetFrame >>

\* Lines 140-153: values().append raises HttpError.
RowsHttpError ==
    /\ InAppend
    /\ args[1] # << >>
    /\ \E status \in HttpStatuses :
          /\ requests' = Append(requests, Request("append", status))
          /\ OnHttpError(status)
    /\ UNCHANGED << sheet_header, sheet_rows, sheetFrame >>

\* Lines 154-156: values().append raises another exception; re-raised.
RowsOtherError ==
    /\ InAppend
    /\ args[1] # << >>
    /\ requests' = Append(requests, Request("append", 0))
    /\ Leave(Exc("Exception"))
    /\ UNCHANGED << sheet_header, sheet_rows, attempt, slept, sheetFrame >>

NextSheets ==
    \/ EnsureReturns \/ EnsureRaisesValueError \/ EnsureWritesHeader
    \/ EnsureGetHttpError \/ EnsureUpdateHttpError \/ EnsureOtherError
    \/ RowsSkipped \/ RowsAppended \/ RowsHttpError \/ RowsOtherError

SpecSheets == InitSheets /\ [][NextSheets]_vars

----------------------------------------------------------------------------
(* Claims about ensure_header_row and append_rows *)

Updated == \E i \in 1..Len(requests) : requests[i].api = "update"

\* C23: ensure_header_row writes the header when the first row is empty,
\* returns without writing when the first row is the required header, and
\* raises ValueError without writing when the first row is there and is
\* anything else; after a normal return the first row is the required header.
C23_FirstRowIsTheHeaderAfterReturn ==
    (called = "ensure_header_row" /\ pc = "done") =>
        /\ ret = None => sheet_header = WrittenHeader(args[1])
        /\ ret = Exc("ValueError") => ~Updated /\ sheet_header # WrittenHeader(args[1])
        /\ (ret \in { None, Exc("ValueError") } /\ ~Updated) =>
              (ret = None <=> sheet_header = WrittenHeader(args[1]))

----------------------------------------------------------------------------
\* The requests that raised HttpError, in the order they were made.
HttpFailed == SelectSeq(requests, LAMBDA r : r.status \notin { 0, 200 })

\* The passes through the retry loop: each starts with values().get in
\* ensure_header_row and is one values().append in append_rows.
Attempts == SelectSeq(requests, LAMBDA r : r.api \in { "get", "append" })

\* C25: in ensure_header_row and append_rows every HttpError counts as one
\* failed attempt; a retry follows a failure only when its status is 429, 500
\* or 503 and fewer than _MAX_ATTEMPTS attempts have failed, and the wait
\* before the retry that follows failure number n is _INITIAL_BACKOFF * 2^n;
\* on any other status and on the _MAX_ATTEMPTS-th failure the HttpError is
\* raised at once, with no wait and no further request; at most
\* _MAX_ATTEMPTS attempts are made.
C25_RetryOnlyTransientErrors ==
    (called \in { "ensure_header_row", "append_rows" }) =>
        /\ attempt = Len(HttpFailed)
        /\ Len(Attempts) <= _MAX_ATTEMPTS
        /\ Len(slept) = IF ret = Exc("HttpError") THEN attempt - 1 ELSE attempt
        /\ \A n \in 1..Len(slept) :
              /\ slept[n] = _INITIAL_BACKOFF * 2^n
              /\ HttpFailed[n].status \in { 429, 500, 503 }
              /\ n < _MAX_ATTEMPTS
        /\ ret = Exc("HttpError") <=>
              /\ attempt >= 1
              /\ requests[Len(requests)] = HttpFailed[attempt]
              /\ HttpFailed[attempt].status \notin { 429, 500, 503 }
                 \/ attempt = _MAX_ATTEMPTS
        /\ pc = "call" => Len(Attempts) = attempt

\* Four failed attempts were retried after 2, 4, 8 and 16 seconds and the
\* fifth failure, retryable though its status is, is raised.
C25_Witness ==
    /\ called = "ensure_header_row"
    /\ ret = Exc("HttpError")
    /\ Len(Attempts) = _MAX_ATTEMPTS
    /\ slept = << 2, 4, 8, 16 >>
    /\ requests[Len(requests)] = Request("update", 503)

(* fetch_unread_full_emails called on its own, statement by statement *)

\* The most pages the Gmail API hands out for one listing.
MaxPages == 2

\* An entry of a list response.
Entry(id) == Dict([id |-> id])

ListedIds == { Name("m1"), Name("m2") }

\* The resource messages().get delivers for an id (line 300); the function
\* hands it on as it is, so its payload is left out here.
Full(id) == FullMessage(id.v, None)

\* The "messages" of one list response: up to two entries, which may repeat
\* each other or entries of an earlier page.
PageEntries == UNION { SeqsOver({ Entry(id) : id \in ListedIds }, n) : n \in 0..2 }

NextPageToken == Name("next")

\* The values of max_results.
MaxResultsValues == (0 - 1)..MAX_RESULTS

RECURSIVE Dedupe(_, _)
\* Lines 279-285: the first entry of every id, in order.
Dedupe(entries, seen) ==
    IF entries = << >> THEN << >>
    ELSE IF Truthy(DictGet(Head(entries), "id", None))
            /\ DictGet(Head(entries), "id", None) \notin seen
    THEN << Head(entries) >>
         \o Dedupe(Tail(entries), seen \cup { DictGet(Head(entries), "id", None) })
    ELSE Dedupe(Tail(entries), seen)

\* The listed entries as they are, neither deduplicated nor trimmed.
AllListed(entries, max_results) == entries

\* Lines 279-287: unique_ids[:max_results]
UniqueIds(entries, max_results) == Prefix(Dedupe(entries, {}), max_results)

InitFetch ==
    /\ called = "fetch_unread_full_emails"
    /\ args \in { << n >> : n \in MaxResultsValues }
    /\ ret = NotRun
    /\ pc = "call"
    /\ attempt = 0
    /\ cursor = 0
    /\ messages = << >>
    /\ requests = << >>
    /\ slept = << >>
    /\ FetchIdle
    /\ sheet_header = << >>
    /\ sheet_rows = << >>
    /\ rows = << >>
    /\ processed_ids = << >>
    /\ header_status = "none"
    /\ append_status = "none"
    /\ marked = << >>
    /\ unread = {}
    /\ BodyIdle
    /\ ParseIdle
    /\ ThreadIdle

fetchFrame == << sheet_header, sheet_rows, rows, processed_ids, header_status,
                 append_status, marked, unread, called, args, bodyVars, parseVars,
                 threadVars >>

\* Lines 229-231: max_results <= 0; return [] at once.
FetchNothing ==
    /\ pc = "call"
    /\ called = "fetch_unread_full_emails"
    /\ args[1] <= 0
    /\ Leave(EmptyList)
    /\ UNCHANGED << attempt, cursor, messages, requests, slept, fetchVars, fetchFrame >>

\* Lines 233-242: the listing loop is entered.
FetchStarts ==
    /\ pc = "call"
    /\ called = "fetch_unread_full_emails"
    /\ args[1] > 0
    /\ pc' = "list"
    /\ UNCHANGED << ret, attempt, cursor, messages, requests, slept, fetchVars, fetchFrame >>

\* Lines 266-288 with the page and the token of a list response: the
\* listing goes on with the next page, or the ids are deduplicated and the
\* fetch phase starts.
AfterPage(listed, token) ==
    /\ all_ids' = listed
    /\ page_token' = token
    /\ attempt' = 0
    /\ IF ~Truthy(token) \/ Len(listed) >= args[1]
       THEN /\ unique_ids' = UniqueIds(listed, args[1])
            /\ pc' = "get"
            /\ cursor' = 1
       ELSE UNCHANGED << unique_ids, pc, cursor >>

\* The pages listed so far.
Pages == SelectSeq(requests, LAMBDA r : r.api = "list" /\ r.status = 200)

\* The nextPageToken of the page that is listed next: the last page the
\* server has comes without one.
PageTokens == IF Len(Pages) + 1 < MaxPages THEN { None, NextPageToken } ELSE { None }

\* Lines 247-253, 266-288: messages().list succeeds.
ListSucceeds ==
    /\ pc = "list"
    /\ requests' = Append(requests, Request("list", 200))
    /\ \E page \in PageEntries :
          \E token \in PageTokens : AfterPage(all_ids \o page, token)
    /\ UNCHANGED << ret, messages, slept, fetchFrame >>

\* The listing given up, but the ids collected so far fetched all the same.
ListAbortsKeepingIds ==
    /\ unique_ids' = UniqueIds(all_ids, args[1])
    /\ pc' = "get"
    /\ cursor' = 1
    /\ UNCHANGED ret

\* Lines 258-260, 262-264: the listing is given up; return [].
ListAborts == Leave(EmptyList) /\ UNCHANGED << unique_ids, cursor >>

\* Lines 254-261: messages().list raises HttpError; sleep and retry, or
\* return [] after _MAX_ATTEMPTS failures in a row.
ListHttpError ==
    /\ pc = "list"
    /\ requests' = Append(requests, Request("list", 500))
    /\ attempt' = attempt + 1
    /\ IF attempt + 1 >= _MAX_ATTEMPTS
       THEN ListAborts /\ UNCHANGED slept
       ELSE /\ slept' = Append(slept, Delay(attempt + 1))
            /\ UNCHANGED << pc, ret, unique_ids, cursor >>
    /\ UNCHANGED << messages, all_ids, page_token, fetchFrame >>

\* Lines 262-264: messages().list raises another exception; return [].
ListOtherError ==
    /\ pc = "list"
    /\ requests' = Append(requests, Request("list", 0))
    /\ ListAborts
    /\ UNCHANGED << attempt, messages, slept, all_ids, page_token, fetchFrame >>

\* The id of the entry the fetch loop is at (line 293); deduplication has
\* left no entry without one, so line 295 is never reached.
msg_id == DictGet(unique_ids[cursor], "id", None)

GetRequest(id, status) == [api |-> "get", status |-> status, id |-> id]

InGet == pc = "get" /\ cursor <= Len(unique_ids)

\* The fetch loop left at the first message that cannot be fetched.
SkipRest == cursor' = Len(unique_ids) + 1 /\ attempt' = 0

\* Lines 312-314, 316-318: break out of the retry loop; the for loop goes on
\* with the next id.
SkipMessage == cursor' = cursor + 1 /\ attempt' = 0

\* Lines 300-307: messages().get succeeds; the message is kept.
GetSucceeds ==
    /\ InGet
    /\ requests' = Append(requests, GetRequest(msg_id, 200))
    /\ messages' = Append(messages, Full(msg_id))
    /\ cursor' = cursor + 1
    /\ attempt' = 0
    /\ UNCHANGED << pc, ret, slept, fetchVars, fetchFrame >>

\* Lines 308-315: messages().get raises HttpError; sleep and retry, or skip
\* the message after _MAX_ATTEMPTS failures in a row.
GetHttpError ==
    /\ InGet
    /\ requests' = Append(requests, GetRequest(msg_id, 500))
    /\ IF attempt + 1 >= _MAX_ATTEMPTS
       THEN SkipMessage /\ UNCHANGED slept
       ELSE /\ attempt' = attempt + 1
            /\ slept' = Append(slept, Delay(attempt + 1))
            /\ UNCHANGED cursor
    /\ UNCHANGED << pc, ret, messages, fetchVars, fetchFrame >>

\* Lines 316-318: messages().get raises another exception; skip the message.
GetOtherError ==
    /\ InGet
    /\ requests' = Append(requests, GetRequest(msg_id, 0))
    /\ SkipMessage
    /\ UNCHANGED << pc, ret, messages, slept, fetchVars, fetchFrame >>

\* Lines 320-321: the loop is over; return full_messages.
FetchReturns ==
    /\ pc = "get"
    /\ cursor > Len(unique_ids)
    /\ Leave(List(messages))
    /\ UNCHANGED << attempt, cursor, messages, requests, slept, fetchVars, fetchFrame >>

NextFetch ==
    \/ FetchNothing \/ FetchStarts \/ ListSucceeds \/ ListHttpError \/ ListOtherError
    \/ GetSucceeds \/ GetHttpError \/ GetOtherError \/ FetchReturns

SpecFetch == InitFetch /\ [][NextFetch]_vars

\* The get requests that succeeded, in the order they were made.
Fetched == SelectSeq(requests, LAMBDA r : r.api = "get" /\ r.status = 200)

FetchCalled == called = "fetch_unread_full_emails"

\* The list returned holds the messages of the requests gets, one for one,
\* and no two of the requests are for the same id.
ReturnedFor(gets) ==
    /\ Len(ret.v) = Len(gets)
    /\ \A i \in 1..Len(gets) : ret.v[i] = Full(gets[i].id)
    /\ \A i, j \in 1..Len(gets) : gets[i].id = gets[j].id => i = j

\* C24: fetch_unread_full_emails returns at most max_results full messages,
\* every one of them fetched by a successful get request and no two of them
\* for the same listed message id; when max_results <= 0 it returns an empty
\* list and no API request is made.
C24_AtMostMaxResultsNoDuplicates ==
    (FetchCalled /\ pc = "done") =>
        /\ ret.t = "list"
        /\ Len(ret.v) <= args[1] \/ ret = EmptyList
        /\ ReturnedFor(Fetched)
        /\ args[1] <= 0 => ret = EmptyList /\ requests = << >>

\* More entries were listed than asked for, one id twice among them, and
\* max_results messages are returned.
C24_Witness ==
    /\ FetchCalled
    /\ pc = "done"
    /\ Len(all_ids) > args[1]
    /\ \E i, j \in 1..Len(all_ids) : i < j /\ all_ids[i] = all_ids[j]
    /\ Len(ret.v) = args[1]

\* Request number p is the one the listing was given up at: a list request
\* that raised another exception than HttpError, or the last of
\* _MAX_ATTEMPTS list requests in a row that raised HttpError.
GaveUpAt(p) ==
    /\ requests[p].api = "list"
    /\ \/ requests[p].status = 0
       \/ /\ p >= _MAX_ATTEMPTS
          /\ \A k \in 0..(_MAX_ATTEMPTS - 1) : requests[p - k] = Request("list", 500)

\* C26: when listing a page fails with HttpError on _MAX_ATTEMPTS attempts
\* in a row, or once with another exception, fetch_unread_full_emails
\* returns an empty list there and then: no request follows and no message
\* is fetched, whatever ids earlier pages had delivered; and it is only
\* then that a call with max_results > 0 returns without a fetch phase.
C26_ListFailureReturnsNothing ==
    FetchCalled =>
        /\ \A p \in 1..Len(requests) :
              GaveUpAt(p) =>
                  /\ p = Len(requests)
                  /\ pc = "done"
                  /\ ret = EmptyList
                  /\ messages = << >>
                  /\ \A q \in 1..Len(requests) : requests[q].api = "list"
        /\ (pc = "done" /\ args[1] > 0 /\ cursor = 0) =>
              requests # << >> /\ GaveUpAt(Len(requests))

\* A page had delivered ids, the next page failed five times in a row and
\* the call returned the empty list.
C26_Witness ==
    /\ FetchCalled
    /\ pc = "done"
    /\ all_ids # << >>
    /\ attempt = _MAX_ATTEMPTS
    /\ GaveUpAt(Len(requests))
    /\ ret = EmptyList

\* The get requests made for the id of one listed entry.
GetsOfId(id) == SelectSeq(requests, LAMBDA r : r.api = "get" /\ r.id = id)

GetsOf(entry) == GetsOfId(DictGet(entry, "id", None))

\* The requests for one entry are over: the last one succeeded, raised
\* another exception than HttpError, or was the _MAX_ATTEMPTS-th.
Over(gets) ==
    /\ gets # << >>
    /\ Len(gets) <= _MAX_ATTEMPTS
    /\ \A n \in 1..(Len(gets) - 1) : gets[n].status = 500
    /\ gets[Len(gets)].status \in { 0, 200 } \/ Len(gets) = _MAX_ATTEMPTS

GetOver(entry) == Over(GetsOf(entry))

GetSucceeded(entry) ==
    \E n \in 1..Len(requests) : requests[n] = GetRequest(DictGet(entry, "id", None), 200)

MessagesOf(entries) == [n \in 1..Len(entries) |-> Full(DictGet(entries[n], "id", None))]

\* C27: in the fetch phase every id of the deduplicated list is requested
\* until its get succeeds, raises another exception than HttpError or has
\* raised HttpError _MAX_ATTEMPTS times; a message that is not fetched is
\* skipped and the loop goes on with the next id; the list returned is the
\* messages whose get succeeded, in the order of the deduplicated list.
C27_FailedGetSkipsOneMessage ==
    (FetchCalled /\ cursor >= 1) =>
        /\ \A n \in 1..(cursor - 1) : GetOver(unique_ids[n])
        /\ messages = MessagesOf(SelectSeq(Prefix(unique_ids, cursor - 1), GetSucceeded))
        /\ pc = "done" =>
              /\ cursor = Len(unique_ids) + 1
              /\ ret = List(MessagesOf(SelectSeq(unique_ids, GetSucceeded)))

\* The first of two ids failed five times, the second was fetched after
\* that and is the only message returned.
C27_Witness ==
    /\ FetchCalled
    /\ pc = "done"
    /\ Len(unique_ids) = 2
    /\ Len(GetsOf(unique_ids[1])) = _MAX_ATTEMPTS
    /\ ~GetSucceeded(unique_ids[1])
    /\ ret = List(<< Full(DictGet(unique_ids[2], "id", None)) >>)

----------------------------------------------------------------------------
(* mark_as_read, called on its own and from step 6 of run_pipeline *)

\* The values of max_attempts.
MaxAttemptsValues == 0.._MAX_ATTEMPTS

\* The lists of processed ids step 6 starts from: ids of the mailbox, no id
\* twice, and None for a message without an id.
ProcessedIdLists ==
    { ids \in UNION { SeqsOver(MailboxIds \cup { None }, n) : n \in 0..MAX_RESULTS } :
        \A i, j \in 1..Len(ids) : (ids[i] = ids[j] /\ ids[i] # None) => i = j }

InitMark ==
    /\ \/ /\ called = "mark_as_read"
          /\ args \in { << id, n >> : id \in MailboxIds, n \in MaxAttemptsValues }
          /\ processed_ids = << >>
          /\ cursor = 0
       \/ /\ called = "run_pipeline"
          /\ args = << >>
          /\ processed_ids \in ProcessedIdLists
          /\ cursor = 1
    /\ ret = NotRun
    /\ pc = "mark"
    /\ attempt = 0
    /\ unread = MailboxIds
    /\ marked = << >>
    /\ requests = << >>
    /\ slept = << >>
    /\ FetchIdle
    /\ sheet_header = << >>
    /\ sheet_rows = << >>
    /\ messages = << >>
    /\ rows = << >>
    /\ header_status = "none"
    /\ append_status = "none"
    /\ BodyIdle
    /\ ParseIdle
    /\ ThreadIdle

markFrame == << sheet_header, sheet_rows, messages, rows, processed_ids, header_status,
                append_status, called, args, fetchVars, bodyVars, parseVars, threadVars >>

InLoop == called = "run_pipeline" /\ pc = "mark" /\ cursor <= Len(processed_ids)

\* The arguments of the call of mark_as_read that is running; line 138 of
\* main_email.py leaves max_attempts at its default.
mid == IF called = "mark_as_read" THEN args[1] ELSE processed_ids[cursor]
max_attempts == IF called = "mark_as_read" THEN args[2] ELSE _MAX_ATTEMPTS

InMark == pc = "mark" /\ (called = "mark_as_read" \/ (InLoop /\ Truthy(mid)))

ModifyRequest(id, status) == [api |-> "modify", status |-> status, id |-> id]

\* mark_as_read returns; step 6 goes on with the next id, and run_pipeline
\* returns after the last.
MarkReturns ==
    IF called = "mark_as_read"
    THEN Leave(None) /\ UNCHANGED cursor
    ELSE /\ cursor' = cursor + 1
         /\ IF cursor = Len(processed_ids) THEN Leave(None) ELSE UNCHANGED << pc, ret >>

\* main_email.py lines 135-136: `if mid` is false, mark_as_read is not called.
IdMissing ==
    /\ InLoop
    /\ ~Truthy(mid)
    /\ MarkReturns
    /\ UNCHANGED << attempt, unread, marked, requests, slept, markFrame >>

\* main_email.py lines 135-143: the list of processed ids is empty.
NothingToMark ==
    /\ called = "run_pipeline"
    /\ pc = "mark"
    /\ cursor > Len(processed_ids)
    /\ Leave(None)
    /\ UNCHANGED << attempt, cursor, unread, marked, requests, slept, markFrame >>

\* Lines 339-345: messages().modify succeeds; return.
ModifySucceeds ==
    /\ InMark
    /\ requests' = Append(requests, ModifyRequest(mid, 200))
    /\ unread' = unread \ { mid }
    /\ marked' = Append(marked, mid)
    /\ attempt' = 0
    /\ MarkReturns
    /\ UNCHANGED << slept, markFrame >>

\* Lines 346-353: messages().modify raises HttpError; return once attempt
\* has reached max_attempts, sleep and retry otherwise.
ModifyHttpError ==
    /\ InMark
    /\ requests' = Append(requests, ModifyRequest(mid, 500))
    /\ IF attempt + 1 >= max_attempts
       THEN attempt' = 0 /\ MarkReturns /\ UNCHANGED slept
       ELSE /\ attempt' = attempt + 1
            /\ slept' = Append(slept, Delay(attempt + 1))
            /\ UNCHANGED << pc, ret, cursor >>
    /\ UNCHANGED << unread, marked, markFrame >>

\* Lines 354-356: messages().modify raises another exception; return.
ModifyOtherError ==
    /\ InMark
    /\ requests' = Append(requests, ModifyRequest(mid, 0))
    /\ attempt' = 0
    /\ MarkReturns
    /\ UNCHANGED << unread, marked, slept, markFrame >>

NextMark ==
    \/ IdMissing \/ NothingToMark
    \/ ModifySucceeds \/ ModifyHttpError \/ ModifyOtherError

SpecMark == InitMark /\ [][NextMark]_vars

\* The modify requests made for one message id.
ModifiesOf(id) == SelectSeq(requests, LAMBDA r : r.api = "modify" /\ r.id = id)

\* The ids mark_as_read is called with.
IdsToMark ==
    IF called = "mark_as_read" THEN { args[1] }
    ELSE { processed_ids[n] : n \in 1..Len(processed_ids) } \ { None }

\* C28: mark_as_read never raises; for one message it issues at most
\* max_attempts modify requests, none after the first success or after the
\* first exception other than HttpError; and once run_pipeline is done,
\* every processed id has had its requests, whatever became of the
\* requests for the ids before it, and is read if one of them succeeded.
C28_MarkGivesUpSilently ==
    (called \in { "mark_as_read", "run_pipeline" }) =>
        /\ ~IsExc(ret)
        /\ \A id \in MailboxIds :
              /\ Len(ModifiesOf(id)) <= max_attempts
              /\ \A n \in 1..(Len(ModifiesOf(id)) - 1) : ModifiesOf(id)[n].status = 500
              /\ id \notin unread <=>
                    \E n \in 1..Len(ModifiesOf(id)) : ModifiesOf(id)[n].status = 200
        /\ pc = "done" =>
              /\ ret = None
              /\ \A id \in IdsToMark :
                    /\ ModifiesOf(id) # << >>
                    /\ \/ ModifiesOf(id)[Len(ModifiesOf(id))].status \in { 0, 200 }
                       \/ Len(ModifiesOf(id)) = max_attempts
=============================================================================
